---- MODULE Spec2Model ----
(***************************************************************************)
(* Pack Cracker (benson/packcracker): the card eligibility and valuation   *)
(* pipeline.                                                               *)
(*                                                                         *)
(*   SpecEV     the valuation pipeline of app.js on a pool of card records *)
(*              (getCardTreatment, expandCardFinishes, calculatePackEV)    *)
(*   SpecScript the cache script's fetchSetCards: the remote query and the *)
(*              per-set eligibility rules (set-configs, generic lists)     *)
(*   SpecFetch  the app's fetchSetCards, await by await: data file, live   *)
(*              query, supplementary pools, play filter                    *)
(*   SpecLoad   app.js's page: the toggle and set handlers, loadCards, the *)
(*              session memo cardCache and the calls waiting on a fetch    *)
(*   SpecRetry  one fetchWithRetry call and what its callers make of it    *)
(*   SpecFilter filterAndSortCards on a list of cards and on its own output *)
(*   SpecBatch  the cache script's main loop and the two tasks of cacheSet  *)
(*   SpecTreat  expandCardFinishes and getCardTreatment on one card record *)
(*   SpecToggle the page's set selection and toggles: init, the booster,   *)
(*              list and foils toggles, handleSetSelect                    *)
(*                                                                         *)
(* Prices are integers in cents; a price field holds Null (JSON null),     *)
(* 0 (the string "0.00") or a positive amount.  The model computes in      *)
(* exact arithmetic: an expected value is kept as an integer in units of   *)
(* 1 / (1000 * EVScale) cent, so that price * (rate / N) is exact for      *)
(* every bucket size N the bounds allow.  Floating-point rounding of the   *)
(* JavaScript numbers is not modelled.                                     *)
(***************************************************************************)
EXTENDS Integers, Sequences, FiniteSets, TLC

VARIABLES
    pool,       \* SpecEV: the card records handed to calculatePackEV
    ev,         \* SpecEV: the value calculatePackEV returned (scaled), or Null
    evPc,       \* SpecEV: "input" before the call, "done" after it
    scSet,      \* SpecScript: the set code the cache script fetches
    scBooster,  \* SpecScript: the booster type asked for
    scConfig,   \* SpecScript: setConfigs[scSet]
    scDb,       \* SpecScript: the upstream printings of the set
    scPc,       \* SpecScript: "fetch", then "done" or "failed"
    scResult,   \* SpecScript: what fetchSetCards returned
    scDoc,      \* SpecScript: the cache document cacheSet returned
    ftSetCode,      \* SpecFetch: the app's fetchSetCards argument setCode
    ftBoosterType,  \* SpecFetch: its argument boosterType
    ftIncludeSG,    \* SpecFetch: its argument includeSpecialGuests
    ftConfig,       \* SpecFetch: the set's config the cache script ran with
    ftDb,           \* SpecFetch: the upstream printings, of every set
    ftPc,           \* SpecFetch: the await fetchSetCards is at
    ftCards,        \* SpecFetch: its local variable cards
    ftPath,         \* SpecFetch: "cache" or "live", the source of the set's cards
    ftSupp,         \* SpecFetch: ids the supplementary-pool fetches returned
    ftOk,           \* SpecFetch: no data file was missing, no request failed
    ftView,         \* SpecFetch: "loading", then what loadCards showed
    ftMemo,         \* SpecFetch: the Map cardCache of the loadCards call
    ldDb,       \* SpecLoad: the upstream printings
    ldHasFile,  \* SpecLoad: whether the data files of the static cache are there
    dom,        \* SpecLoad: the values of the hidden inputs the toggles write
    cardCache,  \* SpecLoad: app.js's Map cardCache, a function on its keys
    calls,      \* SpecLoad: the loadCards calls waiting at await fetchSetCards
    view,       \* SpecLoad: which elements are shown, and what they hold
    shown,      \* SpecLoad: history of the pack EVs displayed, with their query
    clicks,     \* SpecLoad: how many user actions have been handled
    rtImpl,     \* SpecRetry: "app" (app.js) or "script" (the cache script)
    rtI,        \* SpecRetry: fetchWithRetry's loop variable i
    rtReqs,     \* SpecRetry: how many times fetch(url) was called
    rtSeen,     \* SpecRetry: the answers fetch(url) gave, in order
    rtPc,       \* SpecRetry: where fetchWithRetry is, or how it ended
    rtOut,      \* SpecRetry: the value returned or the message of the error thrown
    rtDelay,    \* SpecRetry: milliseconds spent in delay()
    rtResult,   \* SpecRetry: what the caller made of the primary query
    rtView,     \* SpecRetry: what the caller's caller did with the outcome
    fsCards,    \* SpecFilter: the card records handed to filterAndSortCards
    fsMin,      \* SpecFilter: its argument minPrice, in cents
    fsRares,    \* SpecFilter: its argument excludeRares
    fsFoils,    \* SpecFilter: its argument excludeFoils
    fsGroups,   \* SpecFilter: the display groups it returned
    fsAgain,    \* SpecFilter: what it returned for its own output
    fsPc,       \* SpecFilter: "input", "once" or "twice"
    bjI,        \* SpecBatch: the set main is at, by its place in sets.json
    bjMain,     \* SpecBatch: "call", "await" (at Promise.all) or "done"
    bjTask,     \* SpecBatch: where each fetchSetCards task of cacheSet is
    bjReqs,     \* SpecBatch: how many requests each task has started
    bjWritten,  \* SpecBatch: the sets whose data file was written
    bjErrors,   \* SpecBatch: the sets main logged an error for
    trCard,     \* SpecTreat: the card record handed to expandCardFinishes
    trEntries,  \* SpecTreat: the entries expandCardFinishes returned
    trPc,       \* SpecTreat: "input" before the call, "done" after it
    tgUrl,      \* SpecToggle: the state getStateFromURL reads from the address
    tgSet,      \* SpecToggle: the value of the hidden input set-select
    tgBooster,  \* SpecToggle: the value of the hidden input booster-type
    tgActive,   \* SpecToggle: data-value of the active button of booster-toggle
    tgSingle,   \* SpecToggle: whether booster-toggle has the class single
    tgList,     \* SpecToggle: the value of the hidden input list-mode
    tgFoils,    \* SpecToggle: the value of the hidden input foils-mode
    tgListShown,\* SpecToggle: whether the group of list-toggle is visible
    tgFoilsShown,\* SpecToggle: whether the group of foils-toggle is visible
    tgPc,       \* SpecToggle: "boot" before init() has run, "ready" after it
    tgClicks    \* SpecToggle: how many user actions have been handled

evVars == <<pool, ev, evPc>>
scVars == <<scSet, scBooster, scConfig, scDb, scPc, scResult, scDoc>>
ftVars == <<ftSetCode, ftBoosterType, ftIncludeSG, ftConfig, ftDb, ftPc, ftCards,
            ftPath, ftSupp, ftOk, ftView, ftMemo>>
ldVars == <<ldDb, ldHasFile, dom, cardCache, calls, view, shown, clicks>>
rtVars == <<rtImpl, rtI, rtReqs, rtSeen, rtPc, rtOut, rtDelay, rtResult, rtView>>
fsVars == <<fsCards, fsMin, fsRares, fsFoils, fsGroups, fsAgain, fsPc>>
bjVars == <<bjI, bjMain, bjTask, bjReqs, bjWritten, bjErrors>>
trVars == <<trCard, trEntries, trPc>>
tgVars == <<tgUrl, tgSet, tgBooster, tgActive, tgSingle, tgList, tgFoils, tgListShown, tgFoilsShown, tgPc, tgClicks>>
vars == <<pool, ev, evPc, scSet, scBooster, scConfig, scDb, scPc, scResult, scDoc,
          ftSetCode, ftBoosterType, ftIncludeSG, ftConfig, ftDb, ftPc, ftCards,
          ftPath, ftSupp, ftOk, ftView, ftMemo,
          ldDb, ldHasFile, dom, cardCache, calls, view, shown, clicks,
          rtImpl, rtI, rtReqs, rtSeen, rtPc, rtOut, rtDelay, rtResult, rtView,
          fsCards, fsMin, fsRares, fsFoils, fsGroups, fsAgain, fsPc,
          bjI, bjMain, bjTask, bjReqs, bjWritten, bjErrors,
          trCard, trEntries, trPc,
          tgUrl, tgSet, tgBooster, tgActive, tgSingle, tgList, tgFoils, tgListShown, tgFoilsShown, tgPc, tgClicks>>

\* JSON null / JavaScript undefined
Null == -1

(***************************************************************************)
(* Bounds                                                                  *)
(***************************************************************************)
\* the largest pool handed to the pipeline; also the number of card ids
MaxPool == 2
\* the most printings the upstream database holds for one set code
MaxDb == 2

(***************************************************************************)
(* Helpers                                                                 *)
(***************************************************************************)
RECURSIVE Fact(_)
Fact(n) == IF n <= 1 THEN 1 ELSE n * Fact(n - 1)

\* every bucket size 1..MaxPool divides EVScale
EVScale == Fact(MaxPool)

RECURSIVE SetSum(_, _)
\* the sum of f[x] over the finite set S
SetSum(S, f) ==
    IF S = {} THEN 0
    ELSE LET x == CHOOSE y \in S : TRUE
         IN  f[x] + SetSum(S \ {x}, f)

RECURSIVE SeqFilter(_, _)
\* Array.prototype.filter with the membership test given as a set of elements
SeqFilter(s, keep) ==
    IF s = <<>> THEN <<>>
    ELSE IF Head(s) \in keep THEN <<Head(s)>> \o SeqFilter(Tail(s), keep)
         ELSE SeqFilter(Tail(s), keep)

SeqRange(s) == { s[i] : i \in 1..Len(s) }

\* the variables of a specification that is not the one running
EVIdle == pool = <<>> /\ ev = Null /\ evPc = "idle"

FtIdle ==
    /\ ftSetCode = "" /\ ftBoosterType = "" /\ ftIncludeSG = FALSE /\ ftConfig = <<>>
    /\ ftDb = <<>> /\ ftPc = "idle" /\ ftCards = <<>> /\ ftPath = "none"
    /\ ftSupp = {} /\ ftOk = TRUE /\ ftView = "" /\ ftMemo = <<>>

LdIdle ==
    /\ ldDb = <<>> /\ ldHasFile = FALSE /\ dom = <<>> /\ cardCache = <<>>
    /\ calls = <<>> /\ view = <<>> /\ shown = {} /\ clicks = 0

RtIdle ==
    /\ rtImpl = "" /\ rtI = 0 /\ rtReqs = 0 /\ rtSeen = <<>> /\ rtPc = "idle"
    /\ rtOut = "" /\ rtDelay = 0 /\ rtResult = "" /\ rtView = ""

FsIdle ==
    /\ fsCards = <<>> /\ fsMin = 0 /\ fsRares = FALSE /\ fsFoils = FALSE
    /\ fsGroups = <<>> /\ fsAgain = <<>> /\ fsPc = "idle"

TgIdle ==
    /\ tgUrl = <<>> /\ tgSet = "" /\ tgBooster = "" /\ tgActive = ""
    /\ tgSingle = FALSE /\ tgList = "" /\ tgFoils = ""
    /\ tgListShown = FALSE /\ tgFoilsShown = FALSE /\ tgPc = "idle" /\ tgClicks = 0

TrIdle ==
    /\ trCard = <<>> /\ trEntries = <<>> /\ trPc = "idle"

BjIdle ==
    /\ bjI = 0 /\ bjMain = "idle" /\ bjTask = <<>> /\ bjReqs = <<>>
    /\ bjWritten = {} /\ bjErrors = {}

(***************************************************************************)
(* Card records (the Scryfall-like shape app.js works on)                  *)
(***************************************************************************)
\* every field the model reads, with the defaults of a plain printing
BaseCard ==
    [ id |-> 0, set |-> "main", collector_number |-> 1, rarity |-> "rare",
      booster |-> TRUE, finishes |-> {"nonfoil"},
      usd |-> 300, usd_foil |-> Null, usd_etched |-> Null,
      frame_effects |-> {}, promo_types |-> {}, frame |-> "2015",
      border_color |-> "black", promo |-> FALSE, full_art |-> FALSE,
      fromCache |-> FALSE, fromBonusSheet |-> FALSE, fromRetroSheet |-> FALSE ]

Card(id, rarity, finishes, usd, usd_foil, usd_etched, frames) ==
    [ BaseCard EXCEPT !.id = id, !.rarity = rarity, !.finishes = finishes,
                      !.usd = usd, !.usd_foil = usd_foil, !.usd_etched = usd_etched,
                      !.frame_effects = frames ]

\* the price profiles a pool is drawn from: rarity, finishes, usd, usd_foil,
\* usd_etched (cents)
EVProfiles ==
    { <<"rare",   {"nonfoil"},           3000, Null, Null>>,
      <<"rare",   {"nonfoil"},            300, Null, Null>>,
      <<"mythic", {"nonfoil"},           2000, Null, Null>>,
      <<"rare",   {"nonfoil", "foil"},    300, 3000, Null>>,
      <<"mythic", {"nonfoil", "foil"},   2000,  300, Null>>,
      <<"rare",   {"nonfoil", "etched"}, 3000, Null, 2000>>,
      <<"mythic", {"etched"},            Null, Null, 2000>>,
      <<"common", {"nonfoil", "foil"},    300, 3000, Null>>,
      <<"rare",   {"nonfoil", "foil"},      0, 2000, Null>>,
      <<"rare",   {"nonfoil"},           3000, 2000, Null>>,
      <<"rare",   {"foil"},              3000,    0, Null>> }

EVCards ==
    { Card(i, p[1], p[2], p[3], p[4], p[5], {}) : i \in 1..MaxPool, p \in EVProfiles }

EVPools == UNION { [1..n -> EVCards] : n \in 0..MaxPool }

(***************************************************************************)
(* app.js: getCardTreatment, expandCardFinishes                            *)
(***************************************************************************)
\* A treatment is the sequence of labels that the code joins with ", ".
getCardTreatment(card, isFoil) ==
    LET treatments ==
            (IF "showcase" \in card.frame_effects THEN <<"Showcase">> ELSE <<>>)
         \o (IF "extendedart" \in card.frame_effects THEN <<"Extended Art">> ELSE <<>>)
         \o (IF card.border_color = "borderless" THEN <<"Borderless">> ELSE <<>>)
         \o (IF card.promo THEN <<"Promo">> ELSE <<>>)
         \o (IF card.full_art THEN <<"Full Art">> ELSE <<>>)
         \o (IF "etched" \in card.frame_effects THEN <<"Etched">> ELSE <<>>)
         \o (IF isFoil THEN <<"Foil">> ELSE <<>>)
         \o (IF card.set = "plst" THEN <<"The List">> ELSE <<>>)
         \o (IF card.set = "spg" THEN <<"Special Guest">> ELSE <<>>)
    IN  IF Len(treatments) > 0 THEN treatments ELSE <<"Regular">>

\* faulty variant: the etched finish is always labelled "Etched"
EtchedTreatment_Always(t) == <<"Etched">>

\* treatment.replace('Regular', 'Etched') || 'Etched': no other label holds
\* the substring "Regular"
EtchedTreatment(t) == IF t = <<"Regular">> THEN <<"Etched">> ELSE t

Entry(card, price, isFoil, treatment, finishKey) ==
    [ card |-> card, id |-> card.id, rarity |-> card.rarity, price |-> price,
      isFoil |-> isFoil, treatment |-> treatment, finishKey |-> finishKey ]

\* faulty variant: the test price > 0 is left out
Priced_Truthy(p) == p # Null

\* prices.usd && parseFloat(prices.usd) > 0: null is falsy, "0.00" parses to 0
Priced(p) == p # Null /\ p > 0

ExpandOne(card) ==
       (IF "nonfoil" \in card.finishes /\ Priced(card.usd)
        THEN <<Entry(card, card.usd, FALSE, getCardTreatment(card, FALSE), "nonfoil")>>
        ELSE <<>>)
    \o (IF "foil" \in card.finishes /\ Priced(card.usd_foil)
        THEN <<Entry(card, card.usd_foil, TRUE, getCardTreatment(card, TRUE), "foil")>>
        ELSE <<>>)
    \o (IF "etched" \in card.finishes /\ Priced(card.usd_etched)
        THEN <<Entry(card, card.usd_etched, FALSE,
                     EtchedTreatment(getCardTreatment(card, FALSE)), "etched")>>
        ELSE <<>>)

RECURSIVE expandCardFinishes(_)
expandCardFinishes(cards) ==
    IF cards = <<>> THEN <<>>
    ELSE ExpandOne(Head(cards)) \o expandCardFinishes(Tail(cards))

(***************************************************************************)
(* app.js: filterAndSortCards                                              *)
(***************************************************************************)
RECURSIVE InsertDesc_BeforeEqual(_, _, _)
\* faulty variant: e is put before the elements with an equal k, as a sort
\* that is not stable may do
InsertDesc_BeforeEqual(s, e, k) ==
    IF s = <<>> THEN <<e>>
    ELSE IF Head(s)[k] > e[k] THEN <<Head(s)>> \o InsertDesc_BeforeEqual(Tail(s), e, k)
         ELSE <<e>> \o s

RECURSIVE InsertDesc(_, _, _)
\* e put into s, which is sorted by field k descending, after every element
\* whose k is not smaller: what a stable sort with (a, b) => b[k] - a[k] does
InsertDesc(s, e, k) ==
    IF s = <<>> THEN <<e>>
    ELSE IF Head(s)[k] >= e[k] THEN <<Head(s)>> \o InsertDesc(Tail(s), e, k)
         ELSE <<e>> \o s

RECURSIVE SortDesc(_, _)
\* Array.prototype.sort((a, b) => b[k] - a[k]), which is stable
SortDesc(s, k) ==
    IF s = <<>> THEN <<>>
    ELSE InsertDesc(SortDesc(SubSeq(s, 1, Len(s) - 1), k), s[Len(s)], k)

\* faulty variant: an entry priced exactly at the minimum is dropped
PassesFilters_StrictPrice(e, minPrice, excludeRares, excludeFoils) ==
    /\ e.price > minPrice
    /\ excludeRares => e.rarity \notin {"rare", "mythic"}
    /\ excludeFoils => ~e.isFoil

\* faulty variant: excludeFoils drops etched entries too
PassesFilters_EtchedIsFoil(e, minPrice, excludeRares, excludeFoils) ==
    /\ e.price >= minPrice
    /\ excludeRares => e.rarity \notin {"rare", "mythic"}
    /\ excludeFoils => ~e.isFoil /\ e.finishKey # "etched"

\* the three .filter calls
PassesFilters(e, minPrice, excludeRares, excludeFoils) ==
    /\ e.price >= minPrice
    /\ excludeRares => e.rarity \notin {"rare", "mythic"}
    /\ excludeFoils => ~e.isFoil

FinishType(e) ==
    IF e.isFoil THEN "foil" ELSE IF e.finishKey = "etched" THEN "etched" ELSE "regular"

\* grouped.set(card.id, {...card, finishPrices: [], maxPrice: 0})
NewGroup(e) ==
    [ id |-> e.id, card |-> e.card, rarity |-> e.rarity, treatment |-> e.treatment,
      isFoil |-> e.isFoil, finishPrices |-> <<>>, maxPrice |-> 0 ]

\* faulty variant: the representative is the last entry pushed, not the
\* highest-priced one
AddToGroup_LastWins(g, e) ==
    [ g EXCEPT !.finishPrices = Append(@, [ type |-> FinishType(e), price |-> e.price ]),
               !.maxPrice = e.price, !.treatment = e.treatment, !.isFoil = e.isFoil ]

\* faulty variant: an entry that ties with maxPrice becomes the representative
AddToGroup_LaterTieWins(g, e) ==
    LET pushed == [ g EXCEPT !.finishPrices =
                        Append(@, [ type |-> FinishType(e), price |-> e.price ]) ]
    IN  IF e.price >= g.maxPrice
        THEN [ pushed EXCEPT !.maxPrice = e.price, !.treatment = e.treatment,
                             !.isFoil = e.isFoil ]
        ELSE pushed

\* the body of the grouping loop for a card whose group is g
AddToGroup(g, e) ==
    LET pushed == [ g EXCEPT !.finishPrices =
                        Append(@, [ type |-> FinishType(e), price |-> e.price ]) ]
    IN  IF e.price > g.maxPrice
        THEN [ pushed EXCEPT !.maxPrice = e.price, !.treatment = e.treatment,
                             !.isFoil = e.isFoil ]
        ELSE pushed

RECURSIVE GroupEntries_NoMerge(_, _)
\* faulty variant: grouped.has(card.id) is never true, every entry starts a group
GroupEntries_NoMerge(entries, groups) ==
    IF entries = <<>> THEN groups
    ELSE GroupEntries_NoMerge(Tail(entries),
                              Append(groups, AddToGroup(NewGroup(Head(entries)), Head(entries))))

RECURSIVE GroupEntries(_, _)
\* the Map of groups, as the sequence of its values in insertion order
GroupEntries(entries, groups) ==
    IF entries = <<>> THEN groups
    ELSE LET e    == Head(entries)
             at   == { i \in 1..Len(groups) : groups[i].id = e.id }
             next == IF at = {}
                     THEN Append(groups, AddToGroup(NewGroup(e), e))
                     ELSE LET i == CHOOSE j \in at : TRUE
                          IN  [ groups EXCEPT ![i] = AddToGroup(@, e) ]
         IN  GroupEntries(Tail(entries), next)

filterAndSortCards(cards, minPrice, excludeRares, excludeFoils) ==
    LET expanded == expandCardFinishes(cards)
        filtered == SeqFilter(expanded,
                        { e \in SeqRange(expanded) :
                            PassesFilters(e, minPrice, excludeRares, excludeFoils) })
        grouped  == GroupEntries(filtered, <<>>)
        sorted   == [ i \in 1..Len(grouped) |->
                        [ grouped[i] EXCEPT !.finishPrices = SortDesc(@, "price") ] ]
    IN  SortDesc(sorted, "maxPrice")

(***************************************************************************)
(* app.js: calculatePackEV                                                 *)
(***************************************************************************)
\* slot probabilities, per mille
RARE_RATE == 875
MYTHIC_RATE == 125
FOIL_RARE_RATE == 100
FOIL_MYTHIC_RATE == 20

\* expanded.filter(c => c.rarity === rarity && c.isFoil === isFoil)
Bucket(expanded, rarity, isFoil) ==
    SeqFilter(expanded, { e \in SeqRange(expanded) : e.rarity = rarity /\ e.isFoil = isFoil })

\* faulty variant: the pool size counted in price entries instead of distinct card ids
UniqueIdsOr1_CountEntries(bucket) ==
    IF Len(bucket) = 0 THEN 1 ELSE Len(bucket)

\* new Set(bucket.map(c => c.id)).size || 1
UniqueIdsOr1(bucket) ==
    LET n == Cardinality({ bucket[i].id : i \in 1..Len(bucket) })
    IN  IF n = 0 THEN 1 ELSE n

\* faulty variant: only the first card of a bucket is counted
BucketEV_FirstOnly(bucket, rate, unique) ==
    IF bucket = <<>> THEN 0
    ELSE Head(bucket).price * ((rate * EVScale) \div unique)

RECURSIVE BucketEV(_, _, _)
\* for (const card of bucket) ev += card.price * (rate / unique)
BucketEV(bucket, rate, unique) ==
    IF bucket = <<>> THEN 0
    ELSE Head(bucket).price * ((rate * EVScale) \div unique)
         + BucketEV(Tail(bucket), rate, unique)

calculatePackEV(cards) ==
    LET expanded       == expandCardFinishes(cards)
        nonFoilRares   == Bucket(expanded, "rare", FALSE)
        nonFoilMythics == Bucket(expanded, "mythic", FALSE)
        foilRares      == Bucket(expanded, "rare", TRUE)
        foilMythics    == Bucket(expanded, "mythic", TRUE)
    IN    BucketEV(nonFoilRares, RARE_RATE, UniqueIdsOr1(nonFoilRares))
        + BucketEV(nonFoilMythics, MYTHIC_RATE, UniqueIdsOr1(nonFoilMythics))
        + BucketEV(foilRares, FOIL_RARE_RATE, UniqueIdsOr1(foilRares))
        + BucketEV(foilMythics, FOIL_MYTHIC_RATE, UniqueIdsOr1(foilMythics))

(***************************************************************************)
(* The upstream card database (Scryfall) as the cache script queries it    *)
(***************************************************************************)
\* the query of one search: the set code and the filters the query string holds
Query(set, isBooster, notBoosterfun, notPromos, retroOrFull) ==
    [ set |-> set, isBooster |-> isBooster, notBoosterfun |-> notBoosterfun,
      notPromos |-> notPromos, retroOrFull |-> retroOrFull, cn |-> <<>> ]

\* set:<code> cn>=lo cn<=hi
RangeQuery(set, range) ==
    [ Query(set, FALSE, FALSE, {}, FALSE) EXCEPT !.cn = range ]

\* the smallest price the queries ask for: (usd>=0.5 OR usd_foil>=0.5)
MIN_QUERY_PRICE == 50

\* set:<code> [cn>=lo cn<=hi] [is:booster] [-is:boosterfun] [-promo:p ...]
\* [(frame:old OR is:full)] (usd>=t OR usd_foil>=t); Scryfall's is:boosterfun is
\* the promo type boosterfun
Matches(card, q, t) ==
    /\ card.set = q.set
    /\ q.cn # <<>> => (card.collector_number >= q.cn[1] /\ card.collector_number <= q.cn[2])
    /\ q.isBooster => card.booster
    /\ q.notBoosterfun => "boosterfun" \notin card.promo_types
    /\ card.promo_types \cap q.notPromos = {}
    /\ q.retroOrFull => (card.frame = "1997" \/ card.full_art)
    /\ \/ (card.usd # Null /\ card.usd >= t)
       \/ (card.usd_foil # Null /\ card.usd_foil >= t)

\* the records a search returns, in the order of the database
Search(db, q, t) ==
    SeqFilter(db, { c \in SeqRange(db) : Matches(c, q, t) })

(***************************************************************************)
(* The cache script: eligibility rules                                     *)
(***************************************************************************)
\* the fallback lists of loadCollectorExclusives
COLLECTOR_EXCLUSIVE_PROMOS ==
    { "fracturefoil", "texturedfoil", "ripplefoil", "halofoil", "confettifoil",
      "galaxyfoil", "surgefoil", "raisedfoil", "headliner" }
COLLECTOR_EXCLUSIVE_FRAMES == { "inverted", "extendedart" }

JUMPSTART_SETS == { "jmp", "j22", "j25" }

\* A collector number is its parseInt value, or NaN; a range string "N-M" is
\* <<N, M>> and "N" is <<N>>.
NaN == -1

isInRange(cn, rangeStr) ==
    IF cn = NaN THEN FALSE
    ELSE IF Len(rangeStr) = 2
         THEN cn >= rangeStr[1] /\ cn <= rangeStr[2]
         ELSE cn = rangeStr[1]

\* A set's config: hasInclude tells whether playBooster.includeCollectorNumbers
\* is there (an empty array is), hasExclusive whether
\* collectorExclusive.collectorNumbers is.  A set with no config has neither.
Config(hasInclude, include, hasExclusive, exclusive) ==
    [ hasInclude |-> hasInclude, include |-> include,
      hasExclusive |-> hasExclusive, exclusive |-> exclusive ]

\* "null" when the config has no such list
isInPlayBoosterByConfig(card, config) ==
    IF ~config.hasInclude THEN "null"
    ELSE IF \E i \in 1..Len(config.include) :
                isInRange(card.collector_number, config.include[i])
         THEN "true" ELSE "false"

isCollectorExclusiveByConfig(card, config) ==
    IF ~config.hasExclusive THEN "null"
    ELSE IF \E i \in 1..Len(config.exclusive) :
                isInRange(card.collector_number, config.exclusive[i])
         THEN "true" ELSE "false"

\* faulty variant: the generic rule looks at the promo types only
isCollectorExclusive_PromosOnly(card) ==
    card.promo_types \cap COLLECTOR_EXCLUSIVE_PROMOS # {}

isCollectorExclusive(card) ==
    \/ card.promo_types \cap COLLECTOR_EXCLUSIVE_PROMOS # {}
    \/ card.frame_effects \cap COLLECTOR_EXCLUSIVE_FRAMES # {}

\* faulty variant: the collector-exclusive range is tested before the guaranteed-play one
PlayFilter_ExclusiveFirst(card, config) ==
    IF isCollectorExclusiveByConfig(card, config) = "true" THEN FALSE
    ELSE IF isInPlayBoosterByConfig(card, config) = "true" THEN TRUE
    ELSE card.booster /\ ~isCollectorExclusive(card)

\* the client-side filter of fetchSetCards
PlayFilter(card, config) ==
    IF isInPlayBoosterByConfig(card, config) = "true" THEN TRUE
    ELSE IF isCollectorExclusiveByConfig(card, config) = "true" THEN FALSE
    ELSE card.booster /\ ~isCollectorExclusive(card)

\* Scryfall's page size, and the length at which the script stops paging
PAGE_SIZE == 175
PAGE_LIMIT == 350

RECURSIVE FetchPages(_, _)
\* while (nextUrl) { allCards = allCards.concat(page); if (length >= 350) break }
FetchPages(matching, allCards) ==
    IF matching = <<>> THEN allCards
    ELSE LET n    == IF Len(matching) < PAGE_SIZE THEN Len(matching) ELSE PAGE_SIZE
             got  == allCards \o SubSeq(matching, 1, n)
             rest == SubSeq(matching, n + 1, Len(matching))
         IN  IF Len(got) >= PAGE_LIMIT THEN got ELSE FetchPages(rest, got)

\* the query fetchSetCards builds
ScriptQuery(setCode, boosterType, config) ==
    IF ~config.hasInclude /\ boosterType # "collector" /\ setCode \notin JUMPSTART_SETS
    THEN Query(setCode, TRUE, TRUE, COLLECTOR_EXCLUSIVE_PROMOS, FALSE)
    ELSE Query(setCode, FALSE, FALSE, {}, FALSE)

\* fetchSetCards of the cache script when no request fails; a search with no
\* match is answered 404 and gives []
script_fetchSetCards(db, config, setCode, boosterType) ==
    LET allCards == FetchPages(Search(db, ScriptQuery(setCode, boosterType, config),
                                      MIN_QUERY_PRICE), <<>>)
    IN  IF config.hasInclude /\ boosterType # "collector"
        THEN SeqFilter(allCards, { c \in SeqRange(allCards) : PlayFilter(c, config) })
        ELSE allCards

(***************************************************************************)
(* The cache script: processCard, cacheSet                                 *)
(***************************************************************************)
\* the finishes array of a processed card: a finish the card has, with a price
ProcessedFinishes(card) ==
       (IF "nonfoil" \in card.finishes /\ card.usd # Null
        THEN << [ type |-> "nonfoil", price |-> card.usd ] >> ELSE <<>>)
    \o (IF "foil" \in card.finishes /\ card.usd_foil # Null
        THEN << [ type |-> "foil", price |-> card.usd_foil ] >> ELSE <<>>)
    \o (IF "etched" \in card.finishes /\ card.usd_etched # Null
        THEN << [ type |-> "etched", price |-> card.usd_etched ] >> ELSE <<>>)

\* <<result>>, or <<>> where the code returns null
processCard(card) ==
    LET result ==
            [ id |-> card.id, set |-> card.set,
              collector_number |-> card.collector_number, rarity |-> card.rarity,
              booster |-> card.booster, finishes |-> ProcessedFinishes(card),
              showcase |-> "showcase" \in card.frame_effects,
              extendedart |-> "extendedart" \in card.frame_effects,
              inverted |-> "inverted" \in card.frame_effects,
              borderless |-> card.border_color = "borderless",
              fullart |-> card.full_art,
              etched |-> "etched" \in card.frame_effects,
              promo |-> card.promo, promo_types |-> card.promo_types ]
    IN  IF \E i \in 1..Len(result.finishes) : result.finishes[i].price >= MIN_QUERY_PRICE
        THEN <<result>> ELSE <<>>

RECURSIVE ProcessAndDedupe_NoSeen(_, _, _)
\* faulty variant: the loop without the seenIds test
ProcessAndDedupe_NoSeen(cards, seenIds, out) ==
    IF cards = <<>> THEN [ seen |-> seenIds, out |-> out ]
    ELSE LET processed == processCard(Head(cards))
         IN  IF processed # <<>>
             THEN ProcessAndDedupe_NoSeen(Tail(cards), seenIds \cup { processed[1].id },
                                          out \o processed)
             ELSE ProcessAndDedupe_NoSeen(Tail(cards), seenIds, out)

RECURSIVE ProcessAndDedupe(_, _, _)
\* one of the two loops of cacheSet: [seen |-> seenIds, out |-> the processed list]
ProcessAndDedupe(cards, seenIds, out) ==
    IF cards = <<>> THEN [ seen |-> seenIds, out |-> out ]
    ELSE LET processed == processCard(Head(cards))
         IN  IF processed # <<>> /\ processed[1].id \notin seenIds
             THEN ProcessAndDedupe(Tail(cards), seenIds \cup { processed[1].id },
                                   out \o processed)
             ELSE ProcessAndDedupe(Tail(cards), seenIds, out)

\* the cache file of a set, when every request of the script is answered
cacheSet(db, config, setCode) ==
    LET playCards      == script_fetchSetCards(db, config, setCode, "play")
        collectorCards == script_fetchSetCards(db, config, setCode, "collector")
        play           == ProcessAndDedupe(playCards, {}, <<>>)
        collector      == ProcessAndDedupe(collectorCards, play.seen, <<>>)
    IN  [ play |-> play.out, collector |-> play.out \o collector.out ]

(***************************************************************************)
(* SpecScript: one fetchSetCards call of the cache script                  *)
(***************************************************************************)
ScriptSets == { "mkm", "jmp" }
BoosterTypes == { "play", "collector" }

ScriptConfigs ==
    { Config(hi, inc, he, exc) :
        hi \in BOOLEAN, inc \in { <<>>, << <<110>> >> },
        he \in BOOLEAN, exc \in { << <<100, 120>> >> } }

\* collector number, booster flag, promo types, frame effects
ScriptProfiles ==
    { <<cn, b, t[1], t[2]>> :
        cn \in { 110, 125 }, b \in BOOLEAN,
        t \in { <<{}, {}>>, <<{"boosterfun"}, {}>>, <<{"surgefoil"}, {}>>,
                <<{}, {"extendedart"}>> } }

Printing(id, set, p) ==
    [ BaseCard EXCEPT !.id = id, !.set = set, !.collector_number = p[1],
                      !.booster = p[2], !.promo_types = p[3], !.frame_effects = p[4] ]

\* the printings of a set: ids are positions
ScriptDbs(set) ==
    UNION { { [ i \in 1..n |-> Printing(i, set, f[i]) ] : f \in [1..n -> ScriptProfiles] }
            : n \in 0..MaxDb }

\* no cache document yet
NoDoc == [ play |-> <<>>, collector |-> <<>> ]

ScIdle ==
    /\ scSet = "" /\ scBooster = "" /\ scDb = <<>> /\ scPc = "idle"
    /\ scConfig = Config(FALSE, <<>>, FALSE, <<>>) /\ scResult = <<>>
    /\ scDoc = NoDoc

ScInit ==
    /\ scSet \in ScriptSets
    /\ scBooster \in BoosterTypes
    /\ scConfig \in { c \in ScriptConfigs : (~c.hasInclude => c.include = <<>>) }
    /\ scDb \in ScriptDbs(scSet)
    /\ scPc = "fetch"
    /\ scResult = <<>>
    /\ scDoc = NoDoc
    /\ EVIdle
    /\ TgIdle
    /\ TrIdle
    /\ BjIdle
    /\ FsIdle
    /\ RtIdle
    /\ FtIdle
    /\ LdIdle

\* every request was answered (a 404 when nothing matches)
ScFetchDone ==
    /\ scPc = "fetch"
    /\ scResult' = script_fetchSetCards(scDb, scConfig, scSet, scBooster)
    /\ scPc' = "done"
    /\ UNCHANGED <<scSet, scBooster, scConfig, scDb, scDoc>>
    /\ UNCHANGED evVars
    /\ UNCHANGED tgVars
    /\ UNCHANGED trVars
    /\ UNCHANGED bjVars
    /\ UNCHANGED fsVars
    /\ UNCHANGED rtVars
    /\ UNCHANGED ftVars
    /\ UNCHANGED ldVars

\* fetchWithRetry threw something other than HTTP 404: fetchSetCards rethrows
ScFetchThrows ==
    /\ scPc = "fetch"
    /\ scPc' = "failed"
    /\ UNCHANGED <<scSet, scBooster, scConfig, scDb, scResult, scDoc>>
    /\ UNCHANGED evVars
    /\ UNCHANGED tgVars
    /\ UNCHANGED trVars
    /\ UNCHANGED bjVars
    /\ UNCHANGED fsVars
    /\ UNCHANGED rtVars
    /\ UNCHANGED ftVars
    /\ UNCHANGED ldVars

\* cacheSet(set) with both of its fetchSetCards calls answered: the document
\* main writes to the set's data file
ScCacheSet ==
    /\ scPc = "fetch"
    /\ scDoc' = cacheSet(scDb, scConfig, scSet)
    /\ scPc' = "cached"
    /\ UNCHANGED <<scSet, scBooster, scConfig, scDb, scResult>>
    /\ UNCHANGED evVars
    /\ UNCHANGED tgVars
    /\ UNCHANGED trVars
    /\ UNCHANGED bjVars
    /\ UNCHANGED fsVars
    /\ UNCHANGED rtVars
    /\ UNCHANGED ftVars
    /\ UNCHANGED ldVars

ScNext == ScFetchDone \/ ScFetchThrows \/ ScCacheSet

SpecScript == ScInit /\ [][ScNext]_vars


(***************************************************************************)
(* The app: set tables                                                     *)
(***************************************************************************)
\* the entries of SPECIAL_GUESTS_RANGES for the sets of the model
SPECIAL_GUESTS_RANGES ==
    [ s \in { "otj", "mh3", "blb" } |->
        IF s = "otj" THEN <<29, 38>> ELSE IF s = "mh3" THEN <<39, 53>> ELSE <<54, 63>> ]
SETS_WITH_SPECIAL_GUESTS == DOMAIN SPECIAL_GUESTS_RANGES
SETS_WITH_BIG_SCORE == { "otj" }
SETS_WITH_RETRO_IN_BOOSTERS == { "mh3" }
\* the Avatar set and its source-material sheet
BONUS_SHEET_SETS == [ s \in { "tla" } |-> "tle" ]

NoConfig == Config(FALSE, <<>>, FALSE, <<>>)

(***************************************************************************)
(* The app: the static cache files                                         *)
(***************************************************************************)
\* the price of a finish of a cached card, or null
CachedPrice(c, type) ==
    LET at == { i \in 1..Len(c.finishes) : c.finishes[i].type = type }
    IN  IF at = {} THEN Null ELSE c.finishes[CHOOSE i \in at : TRUE].price

\* frame is not stored in the cache file: the converted card has none
convertCachedCard(c) ==
    [ BaseCard EXCEPT
        !.id = c.id, !.set = c.set, !.rarity = c.rarity,
        !.collector_number = c.collector_number, !.booster = c.booster,
        !.fromCache = TRUE,
        !.finishes = { c.finishes[i].type : i \in 1..Len(c.finishes) },
        !.usd = CachedPrice(c, "nonfoil"),
        !.usd_foil = CachedPrice(c, "foil"),
        !.usd_etched = CachedPrice(c, "etched"),
        !.frame_effects =
            { f \in { "showcase", "extendedart", "etched", "inverted" } :
                \/ (f = "showcase" /\ c.showcase)
                \/ (f = "extendedart" /\ c.extendedart)
                \/ (f = "etched" /\ c.etched)
                \/ (f = "inverted" /\ c.inverted) },
        !.promo_types = c.promo_types,
        !.border_color = IF c.borderless THEN "borderless" ELSE "black",
        !.full_art = c.fullart, !.promo = c.promo, !.frame = "" ]

ConvertAll(cards) == [ i \in 1..Len(cards) |-> convertCachedCard(cards[i]) ]

\* fetchCachedCards when ./data/<set>.json is there
fetchCachedCards(db, config, setCode, boosterType) ==
    LET data == cacheSet(db, config, setCode)
    IN  ConvertAll(IF boosterType = "collector" THEN data.collector ELSE data.play)

\* data.collector || data.play || []: an array is truthy even when empty
CachedSideSet(db, code) == cacheSet(db, NoConfig, code).collector

\* faulty variant: the whole of spg.json is added, whatever the set's range
fetchCachedSpecialGuestsCards_NoRange(db, setCode, spgOk, bigOk) ==
       (IF spgOk THEN ConvertAll(CachedSideSet(db, "spg")) ELSE <<>>)
    \o (IF setCode \in SETS_WITH_BIG_SCORE /\ bigOk
        THEN ConvertAll(CachedSideSet(db, "big")) ELSE <<>>)

\* fetchCachedSpecialGuestsCards; spgOk and bigOk tell whether spg.json and
\* big.json are there
fetchCachedSpecialGuestsCards(db, setCode, spgOk, bigOk) ==
    LET range    == SPECIAL_GUESTS_RANGES[setCode]
        allCards == CachedSideSet(db, "spg")
        filtered == SeqFilter(allCards,
                        { c \in SeqRange(allCards) :
                            c.collector_number >= range[1]
                            /\ c.collector_number <= range[2] })
    IN     (IF spgOk THEN ConvertAll(filtered) ELSE <<>>)
        \o (IF setCode \in SETS_WITH_BIG_SCORE /\ bigOk
            THEN ConvertAll(CachedSideSet(db, "big")) ELSE <<>>)

(***************************************************************************)
(* The app: live queries                                                   *)
(***************************************************************************)
\* data.data: the first page of the answer
FirstPage(matching) ==
    SubSeq(matching, 1, IF Len(matching) < PAGE_SIZE THEN Len(matching) ELSE PAGE_SIZE)

\* none of the sets of the model is a draft-only set
LiveQuery(setCode, boosterType) ==
    Query(setCode, boosterType # "collector" /\ setCode \notin JUMPSTART_SETS,
          FALSE, {}, FALSE)

\* the cards of the set query of fetchLiveCards after its client-side filter;
\* a query that matches nothing is answered 404 and leaves []
LivePrimary(db, setCode, boosterType) ==
    LET cards == FirstPage(Search(db, LiveQuery(setCode, boosterType), MIN_QUERY_PRICE))
    IN  IF boosterType # "collector"
        THEN SeqFilter(cards, { c \in SeqRange(cards) : ~isCollectorExclusive(c) })
        ELSE cards

\* spgOk and bigOk tell whether the two requests were answered
fetchLiveSpecialGuestsCards(db, setCode, spgOk, bigOk) ==
       (IF setCode \in DOMAIN SPECIAL_GUESTS_RANGES /\ spgOk
        THEN FirstPage(Search(db, RangeQuery("spg", SPECIAL_GUESTS_RANGES[setCode]),
                              MIN_QUERY_PRICE))
        ELSE <<>>)
    \o (IF setCode \in SETS_WITH_BIG_SCORE /\ bigOk
        THEN FirstPage(Search(db, Query("big", FALSE, FALSE, {}, FALSE), MIN_QUERY_PRICE))
        ELSE <<>>)

fetchRetroFrameCards(db, setCode) ==
    LET cards == FirstPage(Search(db, Query(setCode, FALSE, FALSE, {}, TRUE),
                                  MIN_QUERY_PRICE))
    IN  [ i \in 1..Len(cards) |-> [ cards[i] EXCEPT !.fromRetroSheet = TRUE ] ]

fetchBonusSheetCards(db, bonusSetCode) ==
    LET cards == FirstPage(Search(db, Query(bonusSetCode, FALSE, FALSE, {}, FALSE),
                                  MIN_QUERY_PRICE))
    IN  [ i \in 1..Len(cards) |-> [ cards[i] EXCEPT !.fromBonusSheet = TRUE ] ]

\* faulty variant: Special Guests and The Big Score cards are not let through
KeepForPlay_NoSideSets(card) ==
    \/ card.fromCache
    \/ card.fromBonusSheet
    \/ card.fromRetroSheet
    \/ ~isCollectorExclusive(card)

\* the filter at the end of fetchSetCards
KeepForPlay(card) ==
    \/ card.fromCache
    \/ card.fromBonusSheet
    \/ card.fromRetroSheet
    \/ card.set = "spg" \/ card.set = "big"
    \/ ~isCollectorExclusive(card)

SeqIds(cards) == { cards[i].id : i \in 1..Len(cards) }

(***************************************************************************)
(* SpecFetch: one fetchSetCards call of the app, await by await.  The data *)
(* files are the ones the cache script writes from the same upstream       *)
(* printings.                                                              *)
(***************************************************************************)
MaxFtDb == 1

FetchSets == { "otj", "mh3", "tla", "jmp" }

FetchConfigs == { NoConfig, Config(TRUE, << <<110>> >>, TRUE, << <<100, 120>> >>) }

\* collector number, booster flag, promo types, frame effects, frame
FetchProfiles ==
    { <<125, TRUE, {}, {}, "2015">>,
      <<125, FALSE, {}, {}, "2015">>,
      <<125, TRUE, {}, {"extendedart"}, "2015">>,
      <<125, FALSE, {"boosterfun"}, {"extendedart"}, "2015">>,
      <<125, TRUE, {"boosterfun"}, {"showcase"}, "2015">>,
      <<110, FALSE, {"boosterfun"}, {"extendedart"}, "2015">>,
      <<125, FALSE, {}, {}, "1997">>,
      <<125, TRUE, {"surgefoil"}, {}, "2015">> }

FetchPrinting(id, set, p) == [ Printing(id, set, p) EXCEPT !.frame = p[5] ]

\* two Special Guests printings, one of The Big Score, one of the bonus sheet;
\* tagged, they have the extended-art frame and are not flagged booster
SidePrintings(tagged) ==
    LET p(cn) == IF tagged THEN <<cn, FALSE, {}, {"extendedart"}, "2015">>
                           ELSE <<cn, TRUE, {}, {}, "2015">>
    IN  << FetchPrinting(101, "spg", p(30)), FetchPrinting(102, "spg", p(40)),
           FetchPrinting(103, "big", p(5)), FetchPrinting(104, "tle", p(7)) >>

FetchDbs(set) ==
    UNION { { [ i \in 1..n |-> FetchPrinting(i, set, f[i]) ] \o SidePrintings(tagged) :
                f \in [1..n -> FetchProfiles], tagged \in BOOLEAN }
            : n \in 0..MaxFtDb }

FtInit ==
    /\ ftSetCode \in FetchSets
    /\ ftBoosterType \in BoosterTypes
    /\ ftIncludeSG \in BOOLEAN
    /\ ftConfig \in FetchConfigs
    /\ ftDb \in FetchDbs(ftSetCode)
    /\ ftPc = "cache"
    /\ ftCards = <<>>
    /\ ftPath = "none"
    /\ ftSupp = {}
    /\ ftOk = TRUE
    /\ ftView = "loading"
    /\ ftMemo = <<>>
    /\ EVIdle
    /\ TgIdle
    /\ TrIdle
    /\ BjIdle
    /\ FsIdle
    /\ RtIdle
    /\ ScIdle
    /\ LdIdle

FtInputs == <<ftSetCode, ftBoosterType, ftIncludeSG, ftConfig, ftDb>>

\* fetchSetCards from a point on, up to its next await or its return: the
\* value of cards and where the call then is
Finish(cards) ==
    [ pc |-> "done",
      cards |-> IF ftBoosterType # "collector"
                THEN SeqFilter(cards, { c \in SeqRange(cards) : KeepForPlay(c) })
                ELSE cards ]

AfterBonus(cards) ==
    IF ftSetCode \in SETS_WITH_RETRO_IN_BOOSTERS
    THEN [ pc |-> "retro", cards |-> cards ]
    ELSE Finish(cards)

AfterPrimary(cards) ==
    IF ftSetCode \in DOMAIN BONUS_SHEET_SETS
    THEN [ pc |-> "bonus", cards |-> cards ]
    ELSE AfterBonus(cards)

\* faulty variant: an empty list from the data file is taken as the result
CacheUsable_Any(cached) == Len(cached) >= 0

\* cached && cached.length > 0
CacheUsable(cached) == Len(cached) > 0

\* await fetchCachedCards: the file is there and its list is not empty
FtCacheHit ==
    /\ ftPc = "cache"
    /\ LET cached == fetchCachedCards(ftDb, ftConfig, ftSetCode, ftBoosterType)
           to     == IF ftIncludeSG /\ ftSetCode \in SETS_WITH_SPECIAL_GUESTS
                     THEN [ pc |-> "cacheSG", cards |-> cached ]
                     ELSE AfterPrimary(cached)
       IN  /\ CacheUsable(cached)
           /\ ftCards' = to.cards
           /\ ftPc' = to.pc
    /\ ftPath' = "cache"
    /\ UNCHANGED <<ftSupp, ftOk>>
    /\ UNCHANGED FtInputs
    /\ UNCHANGED <<ftView, ftMemo>>
    /\ UNCHANGED evVars
    /\ UNCHANGED tgVars
    /\ UNCHANGED trVars
    /\ UNCHANGED bjVars
    /\ UNCHANGED fsVars
    /\ UNCHANGED rtVars
    /\ UNCHANGED scVars
    /\ UNCHANGED ldVars

\* await fetchCachedCards: no file (null), an empty list, or fetch threw
FtCacheMiss ==
    /\ ftPc = "cache"
    /\ ftPc' = "live"
    /\ UNCHANGED <<ftCards, ftPath, ftSupp, ftOk>>
    /\ UNCHANGED FtInputs
    /\ UNCHANGED <<ftView, ftMemo>>
    /\ UNCHANGED evVars
    /\ UNCHANGED tgVars
    /\ UNCHANGED trVars
    /\ UNCHANGED bjVars
    /\ UNCHANGED fsVars
    /\ UNCHANGED rtVars
    /\ UNCHANGED scVars
    /\ UNCHANGED ldVars

\* await fetchCachedSpecialGuestsCards
FtCacheSG ==
    /\ ftPc = "cacheSG"
    /\ \E spgOk \in BOOLEAN, bigOk \in BOOLEAN :
        LET sg == fetchCachedSpecialGuestsCards(ftDb, ftSetCode, spgOk, bigOk)
            to == AfterPrimary(ftCards \o sg)
        IN  /\ ftCards' = to.cards
            /\ ftPc' = to.pc
            /\ ftSupp' = ftSupp \cup SeqIds(sg)
            /\ ftOk' = (ftOk /\ spgOk /\ (ftSetCode \in SETS_WITH_BIG_SCORE => bigOk))
    /\ UNCHANGED ftPath
    /\ UNCHANGED FtInputs
    /\ UNCHANGED <<ftView, ftMemo>>
    /\ UNCHANGED evVars
    /\ UNCHANGED tgVars
    /\ UNCHANGED trVars
    /\ UNCHANGED bjVars
    /\ UNCHANGED fsVars
    /\ UNCHANGED rtVars
    /\ UNCHANGED scVars
    /\ UNCHANGED ldVars

\* fetchLiveCards, await fetchWithRetry: the query was answered, with a 404
\* when nothing matches
FtLive ==
    /\ ftPc = "live"
    /\ LET cards == LivePrimary(ftDb, ftSetCode, ftBoosterType)
           to    == IF ftIncludeSG /\ ftSetCode \in SETS_WITH_SPECIAL_GUESTS
                    THEN [ pc |-> "liveSG", cards |-> cards ]
                    ELSE AfterPrimary(cards)
       IN  /\ ftCards' = to.cards
           /\ ftPc' = to.pc
    /\ ftPath' = "live"
    /\ UNCHANGED <<ftSupp, ftOk>>
    /\ UNCHANGED FtInputs
    /\ UNCHANGED <<ftView, ftMemo>>
    /\ UNCHANGED evVars
    /\ UNCHANGED tgVars
    /\ UNCHANGED trVars
    /\ UNCHANGED bjVars
    /\ UNCHANGED fsVars
    /\ UNCHANGED rtVars
    /\ UNCHANGED scVars
    /\ UNCHANGED ldVars

\* fetchLiveCards, await fetchWithRetry: it threw something other than HTTP
\* 404, which fetchLiveCards and fetchSetCards let through
FtLiveThrows ==
    /\ ftPc = "live"
    /\ ftPc' = "failed"
    /\ ftOk' = FALSE
    /\ UNCHANGED <<ftCards, ftPath, ftSupp>>
    /\ UNCHANGED FtInputs
    /\ UNCHANGED <<ftView, ftMemo>>
    /\ UNCHANGED evVars
    /\ UNCHANGED tgVars
    /\ UNCHANGED trVars
    /\ UNCHANGED bjVars
    /\ UNCHANGED fsVars
    /\ UNCHANGED rtVars
    /\ UNCHANGED scVars
    /\ UNCHANGED ldVars

\* fetchLiveCards, await fetchLiveSpecialGuestsCards
FtLiveSG ==
    /\ ftPc = "liveSG"
    /\ \E spgOk \in BOOLEAN, bigOk \in BOOLEAN :
        LET sg == fetchLiveSpecialGuestsCards(ftDb, ftSetCode, spgOk, bigOk)
            to == AfterPrimary(ftCards \o sg)
        IN  /\ ftCards' = to.cards
            /\ ftPc' = to.pc
            /\ ftSupp' = ftSupp \cup SeqIds(sg)
            /\ ftOk' = (ftOk /\ spgOk /\ (ftSetCode \in SETS_WITH_BIG_SCORE => bigOk))
    /\ UNCHANGED ftPath
    /\ UNCHANGED FtInputs
    /\ UNCHANGED <<ftView, ftMemo>>
    /\ UNCHANGED evVars
    /\ UNCHANGED tgVars
    /\ UNCHANGED trVars
    /\ UNCHANGED bjVars
    /\ UNCHANGED fsVars
    /\ UNCHANGED rtVars
    /\ UNCHANGED scVars
    /\ UNCHANGED ldVars

\* await fetchBonusSheetCards, which gives [] when its request fails
FtBonus ==
    /\ ftPc = "bonus"
    /\ \E ok \in BOOLEAN :
        LET bonusCards == IF ok THEN fetchBonusSheetCards(ftDb, BONUS_SHEET_SETS[ftSetCode])
                                ELSE <<>>
            to         == AfterBonus(ftCards \o bonusCards)
        IN  /\ ftCards' = to.cards
            /\ ftPc' = to.pc
            /\ ftSupp' = ftSupp \cup SeqIds(bonusCards)
            /\ ftOk' = (ftOk /\ ok)
    /\ UNCHANGED ftPath
    /\ UNCHANGED FtInputs
    /\ UNCHANGED <<ftView, ftMemo>>
    /\ UNCHANGED evVars
    /\ UNCHANGED tgVars
    /\ UNCHANGED trVars
    /\ UNCHANGED bjVars
    /\ UNCHANGED fsVars
    /\ UNCHANGED rtVars
    /\ UNCHANGED scVars
    /\ UNCHANGED ldVars

\* await fetchRetroFrameCards, which gives [] when its request fails
FtRetro ==
    /\ ftPc = "retro"
    /\ \E ok \in BOOLEAN :
        LET retroCards == IF ok THEN fetchRetroFrameCards(ftDb, ftSetCode) ELSE <<>>
            to         == Finish(ftCards \o retroCards)
        IN  /\ ftCards' = to.cards
            /\ ftPc' = to.pc
            /\ ftSupp' = ftSupp \cup SeqIds(retroCards)
            /\ ftOk' = (ftOk /\ ok)
    /\ UNCHANGED ftPath
    /\ UNCHANGED FtInputs
    /\ UNCHANGED <<ftView, ftMemo>>
    /\ UNCHANGED evVars
    /\ UNCHANGED tgVars
    /\ UNCHANGED trVars
    /\ UNCHANGED bjVars
    /\ UNCHANGED fsVars
    /\ UNCHANGED rtVars
    /\ UNCHANGED scVars
    /\ UNCHANGED ldVars

\* the key loadCards memoizes a result under
FtCacheKey == <<ftSetCode, ftBoosterType, ftIncludeSG>>

\* faulty variant: cardCache.set runs whether or not fetchSetCards threw
MemoAfter_Always(pc, memo, key, cards) ==
    [ k \in DOMAIN memo \cup { key } |-> IF k = key THEN cards ELSE memo[k] ]

\* cardCache after await fetchSetCards: cardCache.set follows the await
\* inside the try block, so it is skipped when fetchSetCards throws
MemoAfter(pc, memo, key, cards) ==
    IF pc = "done"
    THEN [ k \in DOMAIN memo \cup { key } |-> IF k = key THEN cards ELSE memo[k] ]
    ELSE memo

\* loadCards from its await fetchSetCards on: the result is memoized and
\* rendered, or the catch block shows the error message
FtLoadCards ==
    /\ ftPc \in {"done", "failed"}
    /\ ftView = "loading"
    /\ ftMemo' = MemoAfter(ftPc, ftMemo, FtCacheKey, ftCards)
    /\ ftView' = IF ftPc = "done" THEN "cards" ELSE "error"
    /\ UNCHANGED <<ftPc, ftCards, ftPath, ftSupp, ftOk>>
    /\ UNCHANGED FtInputs
    /\ UNCHANGED evVars
    /\ UNCHANGED tgVars
    /\ UNCHANGED trVars
    /\ UNCHANGED bjVars
    /\ UNCHANGED fsVars
    /\ UNCHANGED rtVars
    /\ UNCHANGED scVars
    /\ UNCHANGED ldVars

FtNext ==
    \/ FtCacheHit \/ FtCacheMiss \/ FtCacheSG
    \/ FtLive \/ FtLiveThrows \/ FtLiveSG
    \/ FtBonus \/ FtRetro
    \/ FtLoadCards

SpecFetch == FtInit /\ [][FtNext]_vars

(***************************************************************************)
(* app.js: fetchSetCards and what it calls.  app.js has its own copy of    *)
(* the fetch functions: the live queries take the minimum price, and no    *)
(* client-side filter follows them.                                        *)
(***************************************************************************)
\* the map of fetchCachedCards: no collector number, no promo types
appjs_convertCached(c) ==
    [ BaseCard EXCEPT
        !.id = c.id, !.set = c.set, !.rarity = c.rarity, !.booster = c.booster,
        !.collector_number = Null,
        !.finishes = { c.finishes[i].type : i \in 1..Len(c.finishes) },
        !.usd = CachedPrice(c, "nonfoil"),
        !.usd_foil = CachedPrice(c, "foil"),
        !.usd_etched = CachedPrice(c, "etched"),
        !.frame_effects =
            { f \in { "showcase", "extendedart", "etched" } :
                \/ (f = "showcase" /\ c.showcase)
                \/ (f = "extendedart" /\ c.extendedart)
                \/ (f = "etched" /\ c.etched) },
        !.border_color = IF c.borderless THEN "borderless" ELSE "black",
        !.full_art = c.fullart, !.promo = c.promo, !.frame = "" ]

\* fetchCachedCards when ./data/<set>.json is there
appjs_fetchCachedCards(db, setCode, boosterType) ==
    LET data  == cacheSet(db, NoConfig, setCode)
        cards == IF boosterType = "collector" THEN data.collector ELSE data.play
    IN  [ i \in 1..Len(cards) |-> appjs_convertCached(cards[i]) ]

\* the map of fetchCachedSpecialGuestsCards: a plain black-bordered card
appjs_convertSideSet(c, keepNumber) ==
    [ BaseCard EXCEPT
        !.id = c.id, !.set = c.set, !.rarity = c.rarity, !.booster = c.booster,
        !.collector_number = IF keepNumber THEN c.collector_number ELSE Null,
        !.finishes = { c.finishes[i].type : i \in 1..Len(c.finishes) },
        !.usd = CachedPrice(c, "nonfoil"),
        !.usd_foil = CachedPrice(c, "foil"),
        !.usd_etched = CachedPrice(c, "etched"),
        !.frame = "" ]

\* fetchCachedSpecialGuestsCards when spg.json and big.json are there
appjs_fetchCachedSpecialGuestsCards(db, setCode) ==
    LET range    == SPECIAL_GUESTS_RANGES[setCode]
        allCards == CachedSideSet(db, "spg")
        filtered == SeqFilter(allCards,
                        { c \in SeqRange(allCards) :
                            c.collector_number >= range[1]
                            /\ c.collector_number <= range[2] })
        big      == CachedSideSet(db, "big")
    IN     [ i \in 1..Len(filtered) |-> appjs_convertSideSet(filtered[i], TRUE) ]
        \o (IF setCode \in SETS_WITH_BIG_SCORE
            THEN [ i \in 1..Len(big) |-> appjs_convertSideSet(big[i], FALSE) ]
            ELSE <<>>)

\* Math.max(0.5, minPrice - 0.5), in cents
priceThreshold(minPrice) ==
    IF minPrice - MIN_QUERY_PRICE > MIN_QUERY_PRICE
    THEN minPrice - MIN_QUERY_PRICE ELSE MIN_QUERY_PRICE

\* fetchLiveSpecialGuestsCards when its requests are answered
appjs_fetchLiveSpecialGuestsCards(db, setCode, minPrice) ==
       (IF setCode \in DOMAIN SPECIAL_GUESTS_RANGES
        THEN FirstPage(Search(db, RangeQuery("spg", SPECIAL_GUESTS_RANGES[setCode]),
                              priceThreshold(minPrice)))
        ELSE <<>>)
    \o (IF setCode \in SETS_WITH_BIG_SCORE
        THEN FirstPage(Search(db, Query("big", FALSE, FALSE, {}, FALSE),
                              priceThreshold(minPrice)))
        ELSE <<>>)

\* fetchLiveCards when its requests are answered (a 404 leaves [])
appjs_fetchLiveCards(db, setCode, boosterType, minPrice, includeSpecialGuests) ==
    LET play  == boosterType # "collector"
        cards == FirstPage(Search(db, Query(setCode, play, play, {}, FALSE),
                                  priceThreshold(minPrice)))
    IN  IF includeSpecialGuests /\ setCode \in SETS_WITH_SPECIAL_GUESTS
        THEN cards \o appjs_fetchLiveSpecialGuestsCards(db, setCode, minPrice)
        ELSE cards

\* the cards of the data file, or <<>> when hasFile is false
appjs_Cached(db, hasFile, setCode, boosterType) ==
    IF hasFile THEN appjs_fetchCachedCards(db, setCode, boosterType) ELSE <<>>

\* fetchSetCards when the live requests it makes are answered
appjs_fetchSetCards(db, hasFile, setCode, boosterType, minPrice, includeSpecialGuests) ==
    LET cached == appjs_Cached(db, hasFile, setCode, boosterType)
    IN  IF Len(cached) > 0
        THEN IF includeSpecialGuests /\ setCode \in SETS_WITH_SPECIAL_GUESTS
             THEN cached \o appjs_fetchCachedSpecialGuestsCards(db, setCode)
             ELSE cached
        ELSE appjs_fetchLiveCards(db, setCode, boosterType, minPrice, includeSpecialGuests)

(***************************************************************************)
(* SpecLoad: app.js's page after init() has called loadCards: the toggle   *)
(* and set-selection handlers, and the loadCards calls they start          *)
(***************************************************************************)
MaxClicks == 2

LoadSets == { "mh3", "blb" }
\* the values of the price buttons the model clicks, in cents
MinPrices == { 200, 3000 }
Modes == { "include", "exclude" }

LoadPrinting(id, set, cn, rarity, finishes, usd, usd_foil) ==
    [ BaseCard EXCEPT !.id = id, !.set = set, !.collector_number = cn,
                      !.rarity = rarity, !.finishes = finishes, !.usd = usd,
                      !.usd_foil = usd_foil ]

\* a Special Guests printing for each set, and a printing of blb
LoadSidePrintings ==
    << LoadPrinting(101, "spg", 40, "mythic", {"nonfoil"}, 900, Null),
       LoadPrinting(102, "spg", 55, "rare", {"nonfoil"}, 900, Null),
       LoadPrinting(201, "blb", 7, "rare", {"nonfoil", "foil"}, 300, 700) >>

LoadDbs ==
    { << LoadPrinting(1, "mh3", 1, "rare", {"nonfoil"}, 300, Null),
         LoadPrinting(2, "mh3", 2, "mythic", {"nonfoil"}, 4000, Null) >>
        \o LoadSidePrintings,
      << LoadPrinting(1, "mh3", 1, "rare", {"nonfoil", "foil"}, 300, 3500) >>
        \o LoadSidePrintings,
      LoadSidePrintings }

\* cacheKey: the four values the template string joins
CacheKey(q) == <<q.set, q.booster, q.min, q.list = "include">>

\* packEV.toFixed(2), in cents
toFixed2(packEV) == (2 * packEV + 1000 * EVScale) \div (2 * 1000 * EVScale)

setLoading(v, loading) ==
    IF loading
    THEN [ v EXCEPT !.loading = TRUE, !.gridHidden = TRUE, !.countHidden = TRUE,
                    !.evHidden = TRUE ]
    ELSE [ v EXCEPT !.loading = FALSE, !.gridHidden = FALSE ]

showError(v) ==
    [ v EXCEPT !.errorHidden = FALSE, !.gridHidden = TRUE, !.countHidden = TRUE,
               !.evHidden = TRUE ]

\* renderCards(cards, rawCards): the grid holds the ids of the display groups
renderCards(v, cards, rawCards) ==
    LET packEV == calculatePackEV(rawCards)
    IN  IF Len(cards) = 0
        THEN IF packEV > 0
             THEN [ v EXCEPT !.grid = <<>>, !.countHidden = TRUE,
                             !.ev = toFixed2(packEV), !.evHidden = FALSE ]
             ELSE [ v EXCEPT !.grid = <<>>, !.countHidden = TRUE, !.evHidden = TRUE ]
        ELSE [ v EXCEPT !.count = Len(cards), !.countHidden = FALSE,
                        !.ev = toFixed2(packEV), !.evHidden = FALSE,
                        !.grid = [ i \in 1..Len(cards) |-> cards[i].id ] ]

\* loadCards from the filtering on, for the values q the call read at its start
FilterAndRender(v, rawCards, q) ==
    renderCards(v, filterAndSortCards(rawCards, q.min, q.rares = "exclude",
                                      q.foils = "exclude"),
                rawCards)

\* the history of displayed pack EVs after a render that left v
Displayed(v, q) ==
    IF v.evHidden THEN shown ELSE shown \cup { <<q.set, q.booster, q.list, v.ev>> }

\* loadCards up to its await, or to its end when cardCache has the key
loadCards(q) ==
    LET v1 == setLoading([ view EXCEPT !.errorHidden = TRUE ], TRUE)
    IN  IF CacheKey(q) \in DOMAIN cardCache
        THEN LET v2 == FilterAndRender(v1, cardCache[CacheKey(q)], q)
             IN  /\ view' = setLoading(v2, FALSE)
                 /\ shown' = Displayed(v2, q)
                 /\ UNCHANGED calls
        ELSE /\ view' = v1
             /\ calls' = Append(calls, q)
             /\ UNCHANGED shown

\* a handler wrote d to the hidden inputs and called loadCards
Handle(d) ==
    /\ clicks' = clicks + 1
    /\ dom' = d
    /\ loadCards(d)
    /\ UNCHANGED <<ldDb, ldHasFile, cardCache>>
    /\ UNCHANGED evVars
    /\ UNCHANGED tgVars
    /\ UNCHANGED trVars
    /\ UNCHANGED bjVars
    /\ UNCHANGED fsVars
    /\ UNCHANGED rtVars
    /\ UNCHANGED scVars
    /\ UNCHANGED ftVars

\* The model handles MaxClicks user actions.  Both sets of the model have
\* Special Guests and foils: updateFilterToggles leaves the hidden inputs
\* alone, and updateBoosterTypeOptions does too.
selectSet ==
    \E code \in LoadSets :
        /\ clicks < MaxClicks
        /\ Handle([ dom EXCEPT !.set = code ])

ClickBooster ==
    \E value \in BoosterTypes :
        /\ clicks < MaxClicks
        /\ Handle([ dom EXCEPT !.booster = value ])

ClickPrice ==
    \E value \in MinPrices :
        /\ clicks < MaxClicks
        /\ Handle([ dom EXCEPT !.min = value ])

ClickFoils ==
    \E value \in Modes :
        /\ clicks < MaxClicks
        /\ Handle([ dom EXCEPT !.foils = value ])

ClickRares ==
    \E value \in Modes :
        /\ clicks < MaxClicks
        /\ Handle([ dom EXCEPT !.rares = value ])

ClickList ==
    \E value \in Modes :
        /\ clicks < MaxClicks
        /\ Handle([ dom EXCEPT !.list = value ])

RemoveAt(seq, i) == SubSeq(seq, 1, i - 1) \o SubSeq(seq, i + 1, Len(seq))

\* loadCards of the waiting call i from its await on, with the cards
\* fetchSetCards gave
loadCardsResume(i, rawCards) ==
    LET q == calls[i]
        v == FilterAndRender(view, rawCards, q)
    IN  /\ cardCache' = [ k \in DOMAIN cardCache \cup { CacheKey(q) } |->
                            IF k = CacheKey(q) THEN rawCards ELSE cardCache[k] ]
        /\ view' = setLoading(v, FALSE)
        /\ shown' = Displayed(v, q)
        /\ calls' = RemoveAt(calls, i)

\* whether one request for a data file of the static cache gives the file:
\* never when the file is not there, and not always when it is
FileOutcomes == { ldHasFile, FALSE }

\* await fetchSetCards of a waiting call gives its cards
FetchResolves ==
    \E i \in 1..Len(calls), fileOk \in FileOutcomes :
        /\ loadCardsResume(i, appjs_fetchSetCards(ldDb, fileOk, calls[i].set,
                                                  calls[i].booster, calls[i].min,
                                                  calls[i].list = "include"))
        /\ UNCHANGED <<ldDb, ldHasFile, dom, clicks>>
        /\ UNCHANGED evVars
        /\ UNCHANGED tgVars
        /\ UNCHANGED trVars
        /\ UNCHANGED bjVars
        /\ UNCHANGED fsVars
        /\ UNCHANGED rtVars
        /\ UNCHANGED scVars
        /\ UNCHANGED ftVars

\* await fetchSetCards of a waiting call throws: the data file gave no cards
\* and the set query of fetchLiveCards failed with something other than 404
FetchRejects ==
    \E i \in 1..Len(calls) :
        LET q == calls[i]
        IN  /\ \E fileOk \in FileOutcomes :
                   Len(appjs_Cached(ldDb, fileOk, q.set, q.booster)) = 0
            /\ view' = setLoading(showError(view), FALSE)
            /\ calls' = RemoveAt(calls, i)
            /\ UNCHANGED <<ldDb, ldHasFile, dom, cardCache, shown, clicks>>
            /\ UNCHANGED evVars
            /\ UNCHANGED tgVars
            /\ UNCHANGED trVars
            /\ UNCHANGED bjVars
            /\ UNCHANGED fsVars
            /\ UNCHANGED rtVars
            /\ UNCHANGED scVars
            /\ UNCHANGED ftVars

\* init() has set the hidden inputs from an address with no parameters but the
\* set, and its loadCards call waits at await fetchSetCards
LdInit ==
    /\ ldDb \in LoadDbs
    /\ ldHasFile \in BOOLEAN
    /\ \E code \in LoadSets :
        dom = [ set |-> code, booster |-> "play", min |-> 200, foils |-> "include",
                rares |-> "include", list |-> "exclude" ]
    /\ cardCache = <<>>
    /\ calls = <<dom>>
    /\ view = [ loading |-> TRUE, errorHidden |-> TRUE, gridHidden |-> TRUE,
                countHidden |-> TRUE, evHidden |-> TRUE, ev |-> Null, count |-> 0,
                grid |-> <<>> ]
    /\ shown = {}
    /\ clicks = 0
    /\ EVIdle
    /\ TgIdle
    /\ TrIdle
    /\ BjIdle
    /\ FsIdle
    /\ RtIdle
    /\ ScIdle
    /\ FtIdle

LdNext ==
    \/ selectSet \/ ClickBooster \/ ClickPrice \/ ClickFoils \/ ClickRares \/ ClickList
    \/ FetchResolves \/ FetchRejects

SpecLoad == LdInit /\ [][LdNext]_vars

(***************************************************************************)
(* SpecRetry: one fetchWithRetry call for the primary set query, answer by *)
(* answer, and what its callers make of the way it ends: fetchLiveCards    *)
(* and loadCards in app.js, fetchSetCards and main in the cache script.    *)
(* The two copies of fetchWithRetry differ in their delays only.           *)
(***************************************************************************)
\* the default of fetchWithRetry's parameter retries
retries == 3

\* what one fetch(url) can give: an OK response, a 429, another non-OK
\* status, or a rejected promise (network failure)
Answers == {"ok", "429", "404", "500", "reject"}

RateLimitDelay(impl) == IF impl = "app" THEN 1000 ELSE 2000

BackoffDelay(impl, i) == IF impl = "app" THEN 100 * (i + 1) ELSE 500 * (i + 1)

\* error.message of what the try block throws
ErrorMessage(answer) ==
    CASE answer = "404" -> "HTTP 404"
      [] answer = "500" -> "HTTP 500"
      [] OTHER -> "Failed to fetch"

\* faulty variant: the loop runs once more than retries allows
LoopHead_OneMore(i) == IF i < retries + 1 THEN "fetch" ELSE "undefined"

\* the for loop's test after i++: another turn, or the end of the function
\* body, where the call returns undefined
LoopHead(i) == IF i < retries THEN "fetch" ELSE "undefined"

RtReceive(answer) ==
    /\ rtPc = "fetch"
    /\ rtReqs' = rtReqs + 1
    /\ rtSeen' = Append(rtSeen, answer)
    /\ UNCHANGED <<rtImpl, rtResult, rtView>>
    /\ UNCHANGED evVars
    /\ UNCHANGED tgVars
    /\ UNCHANGED trVars
    /\ UNCHANGED bjVars
    /\ UNCHANGED fsVars
    /\ UNCHANGED scVars
    /\ UNCHANGED ftVars
    /\ UNCHANGED ldVars

\* response.ok: return await response.json()
RtOk ==
    /\ RtReceive("ok")
    /\ rtPc' = "returned"
    /\ rtOut' = "body"
    /\ UNCHANGED <<rtI, rtDelay>>

\* response.status === 429: delay, continue
RtRateLimited ==
    /\ RtReceive("429")
    /\ rtDelay' = rtDelay + RateLimitDelay(rtImpl)
    /\ rtI' = rtI + 1
    /\ rtPc' = LoopHead(rtI + 1)
    /\ UNCHANGED rtOut

\* !response.ok, or fetch rejected: the catch block
RtFails ==
    \E answer \in {"404", "500", "reject"} :
        /\ RtReceive(answer)
        /\ IF rtI = retries - 1
             THEN /\ rtPc' = "threw"
                  /\ rtOut' = ErrorMessage(answer)
                  /\ UNCHANGED <<rtI, rtDelay>>
             ELSE /\ rtDelay' = rtDelay + BackoffDelay(rtImpl, rtI)
                  /\ rtI' = rtI + 1
                  /\ rtPc' = LoopHead(rtI + 1)
                  /\ UNCHANGED rtOut

\* the try/catch around await fetchWithRetry(url) in fetchLiveCards and in
\* the script's fetchSetCards: reading data.data of undefined throws a
\* TypeError inside the try block
PrimaryResult(pc, out) ==
    CASE pc = "returned" -> "cards"
      [] pc = "threw" /\ out = "HTTP 404" -> "empty"
      [] OTHER -> "error"

RtCallerSettles ==
    /\ rtPc \in {"returned", "threw", "undefined"}
    /\ rtResult = "pending"
    /\ rtResult' = PrimaryResult(rtPc, rtOut)
    /\ UNCHANGED <<rtImpl, rtI, rtReqs, rtSeen, rtPc, rtOut, rtDelay, rtView>>
    /\ UNCHANGED evVars
    /\ UNCHANGED tgVars
    /\ UNCHANGED trVars
    /\ UNCHANGED bjVars
    /\ UNCHANGED fsVars
    /\ UNCHANGED scVars
    /\ UNCHANGED ftVars
    /\ UNCHANGED ldVars

\* loadCards: renderCards, or the catch block's showError
RtLoadCardsSettles ==
    /\ rtImpl = "app"
    /\ rtResult \in {"cards", "empty", "error"}
    /\ rtView = "loading"
    /\ rtView' = IF rtResult = "error" THEN "error" ELSE "cards"
    /\ UNCHANGED <<rtImpl, rtI, rtReqs, rtSeen, rtPc, rtOut, rtDelay, rtResult>>
    /\ UNCHANGED evVars
    /\ UNCHANGED tgVars
    /\ UNCHANGED trVars
    /\ UNCHANGED bjVars
    /\ UNCHANGED fsVars
    /\ UNCHANGED scVars
    /\ UNCHANGED ftVars
    /\ UNCHANGED ldVars

\* the script's main: the data file is written, or the error is logged
RtMainSettles ==
    /\ rtImpl = "script"
    /\ rtResult \in {"cards", "empty", "error"}
    /\ rtView = "running"
    /\ rtView' = IF rtResult = "error" THEN "logged" ELSE "written"
    /\ UNCHANGED <<rtImpl, rtI, rtReqs, rtSeen, rtPc, rtOut, rtDelay, rtResult>>
    /\ UNCHANGED evVars
    /\ UNCHANGED tgVars
    /\ UNCHANGED trVars
    /\ UNCHANGED bjVars
    /\ UNCHANGED fsVars
    /\ UNCHANGED scVars
    /\ UNCHANGED ftVars
    /\ UNCHANGED ldVars

RtInit ==
    /\ rtImpl \in {"app", "script"}
    /\ rtI = 0
    /\ rtReqs = 0
    /\ rtSeen = <<>>
    /\ rtPc = LoopHead(0)
    /\ rtOut = ""
    /\ rtDelay = 0
    /\ rtResult = "pending"
    /\ rtView = IF rtImpl = "app" THEN "loading" ELSE "running"
    /\ EVIdle
    /\ TgIdle
    /\ TrIdle
    /\ BjIdle
    /\ FsIdle
    /\ ScIdle
    /\ FtIdle
    /\ LdIdle

RtNext ==
    \/ RtOk
    \/ RtRateLimited
    \/ RtFails
    \/ RtCallerSettles
    \/ RtLoadCardsSettles
    \/ RtMainSettles

SpecRetry == RtInit /\ [][RtNext]_vars

\* every await of the call resolves or rejects, and every delay() elapses
SpecRetryFair == SpecRetry /\ WF_vars(RtNext)

(***************************************************************************)
(* SpecFilter: filterAndSortCards applied to a list of card records, and   *)
(* then to the groups it returned.  The list may hold a card id twice, as  *)
(* the list fetchSetCards returns may.                                     *)
(***************************************************************************)
MaxFsPool == 2

FsProfiles ==
    { <<"rare",   {"nonfoil"},           300,  Null, Null, {}>>,
      <<"rare",   {"nonfoil", "foil"},   300,  3000, Null, {}>>,
      <<"mythic", {"nonfoil", "foil"},   2000, 300,  Null, {"showcase"}>>,
      <<"rare",   {"nonfoil", "etched"}, 3000, Null, 2000, {}>>,
      <<"common", {"nonfoil", "foil"},   300,  300,  Null, {}>>,
      <<"rare",   {"foil"},              3000, 0,    Null, {}>> }

FsCardSet ==
    { Card(i, p[1], p[2], p[3], p[4], p[5], p[6]) : i \in 1..MaxFsPool, p \in FsProfiles }

FsPools == UNION { [1..n -> FsCardSet] : n \in 0..MaxFsPool }

FsMinPrices == {300, 2500}

\* a display group read as a card record: the group object is the spread of
\* its first entry, itself the spread of the card, so id, rarity, finishes,
\* prices and the frame fields that expandCardFinishes and getCardTreatment
\* read are the card's
GroupAsCard(g) == g.card

GroupsAsCards(groups) == [ i \in 1..Len(groups) |-> GroupAsCard(groups[i]) ]

FsInit ==
    /\ fsCards \in FsPools
    /\ fsMin \in FsMinPrices
    /\ fsRares \in BOOLEAN
    /\ fsFoils \in BOOLEAN
    /\ fsGroups = <<>>
    /\ fsAgain = <<>>
    /\ fsPc = "input"
    /\ EVIdle
    /\ TgIdle
    /\ TrIdle
    /\ BjIdle
    /\ RtIdle
    /\ ScIdle
    /\ FtIdle
    /\ LdIdle

FsApply ==
    /\ fsPc = "input"
    /\ fsGroups' = filterAndSortCards(fsCards, fsMin, fsRares, fsFoils)
    /\ fsPc' = "once"
    /\ UNCHANGED <<fsCards, fsMin, fsRares, fsFoils, fsAgain>>
    /\ UNCHANGED evVars
    /\ UNCHANGED tgVars
    /\ UNCHANGED trVars
    /\ UNCHANGED bjVars
    /\ UNCHANGED rtVars
    /\ UNCHANGED scVars
    /\ UNCHANGED ftVars
    /\ UNCHANGED ldVars

FsApplyAgain ==
    /\ fsPc = "once"
    /\ fsAgain' = filterAndSortCards(GroupsAsCards(fsGroups), fsMin, fsRares, fsFoils)
    /\ fsPc' = "twice"
    /\ UNCHANGED <<fsCards, fsMin, fsRares, fsFoils, fsGroups>>
    /\ UNCHANGED evVars
    /\ UNCHANGED tgVars
    /\ UNCHANGED trVars
    /\ UNCHANGED bjVars
    /\ UNCHANGED rtVars
    /\ UNCHANGED scVars
    /\ UNCHANGED ftVars
    /\ UNCHANGED ldVars

FsNext == FsApply \/ FsApplyAgain

SpecFilter == FsInit /\ [][FsNext]_vars

(***************************************************************************)
(* SpecBatch: the cache script's main loop over the sets of sets.json.     *)
(* cacheSet starts the play and the collector fetchSetCards of a set as    *)
(* two tasks and awaits Promise.all of them.  A task sleeps (delay) before *)
(* each request and asks for at most MaxPages pages; fetchWithRetry's      *)
(* attempts for one page count as one request here.                        *)
(***************************************************************************)
MaxSets == 2

\* fetchSetCards stops after the first 2 pages (350 cards)
MaxPages == 2

BjTasks == (1..MaxSets) \X {"play", "collector"}

BjActive(t) == bjTask[t] \in {"sleeping", "fetching"}

\* Promise.all rejects when the first of its promises rejects, whatever the
\* other one is doing
BjRejected(i) == \E b \in {"play", "collector"} : bjTask[<<i, b>>] = "failed"

BjFulfilled(i) == \A b \in {"play", "collector"} : bjTask[<<i, b>>] = "ok"

\* main after the try/catch around await cacheSet(set): the next set
BjAdvance ==
    /\ bjI' = bjI + 1
    /\ bjMain' = IF bjI < MaxSets THEN "call" ELSE "done"

\* cacheSet(set) up to its await: both fetchSetCards tasks are started; each
\* begins with a delay
BjCacheSet ==
    /\ bjMain = "call"
    /\ bjTask' = [ t \in BjTasks |-> IF t[1] = bjI THEN "sleeping" ELSE bjTask[t] ]
    /\ bjMain' = "await"
    /\ UNCHANGED <<bjI, bjReqs, bjWritten, bjErrors>>
    /\ UNCHANGED evVars
    /\ UNCHANGED tgVars
    /\ UNCHANGED trVars
    /\ UNCHANGED rtVars
    /\ UNCHANGED fsVars
    /\ UNCHANGED scVars
    /\ UNCHANGED ftVars
    /\ UNCHANGED ldVars

\* a task's delay elapses and it calls fetchWithRetry for its next page
BjTaskRequests ==
    \E t \in BjTasks :
        /\ bjTask[t] = "sleeping"
        /\ bjTask' = [ bjTask EXCEPT ![t] = "fetching" ]
        /\ bjReqs' = [ bjReqs EXCEPT ![t] = @ + 1 ]
        /\ UNCHANGED <<bjI, bjMain, bjWritten, bjErrors>>
        /\ UNCHANGED evVars
        /\ UNCHANGED tgVars
        /\ UNCHANGED trVars
        /\ UNCHANGED rtVars
        /\ UNCHANGED fsVars
        /\ UNCHANGED scVars
        /\ UNCHANGED ftVars
        /\ UNCHANGED ldVars

\* fetchWithRetry returns a page: another page follows (has_more, fewer than
\* 350 cards so far) or the task returns its list
BjTaskAnswered ==
    \E t \in BjTasks, hasMore \in BOOLEAN :
        /\ bjTask[t] = "fetching"
        /\ bjTask' = [ bjTask EXCEPT ![t] =
                         IF hasMore /\ bjReqs[t] < MaxPages THEN "sleeping" ELSE "ok" ]
        /\ UNCHANGED <<bjI, bjMain, bjReqs, bjWritten, bjErrors>>
        /\ UNCHANGED evVars
        /\ UNCHANGED tgVars
        /\ UNCHANGED trVars
        /\ UNCHANGED rtVars
        /\ UNCHANGED fsVars
        /\ UNCHANGED scVars
        /\ UNCHANGED ftVars
        /\ UNCHANGED ldVars

\* fetchWithRetry throws something other than HTTP 404: the task rejects
BjTaskFails ==
    \E t \in BjTasks :
        /\ bjTask[t] = "fetching"
        /\ bjTask' = [ bjTask EXCEPT ![t] = "failed" ]
        /\ UNCHANGED <<bjI, bjMain, bjReqs, bjWritten, bjErrors>>
        /\ UNCHANGED evVars
        /\ UNCHANGED tgVars
        /\ UNCHANGED trVars
        /\ UNCHANGED rtVars
        /\ UNCHANGED fsVars
        /\ UNCHANGED scVars
        /\ UNCHANGED ftVars
        /\ UNCHANGED ldVars

\* await Promise.all fulfils: cacheSet returns and main writes the data file
BjJoin ==
    /\ bjMain = "await"
    /\ BjFulfilled(bjI)
    /\ bjWritten' = bjWritten \cup {bjI}
    /\ BjAdvance
    /\ UNCHANGED <<bjTask, bjReqs, bjErrors>>
    /\ UNCHANGED evVars
    /\ UNCHANGED tgVars
    /\ UNCHANGED trVars
    /\ UNCHANGED rtVars
    /\ UNCHANGED fsVars
    /\ UNCHANGED scVars
    /\ UNCHANGED ftVars
    /\ UNCHANGED ldVars

\* await Promise.all rejects: cacheSet throws and main's catch logs the error
BjJoinRejects ==
    /\ bjMain = "await"
    /\ BjRejected(bjI)
    /\ bjErrors' = bjErrors \cup {bjI}
    /\ BjAdvance
    /\ UNCHANGED <<bjTask, bjReqs, bjWritten>>
    /\ UNCHANGED evVars
    /\ UNCHANGED tgVars
    /\ UNCHANGED trVars
    /\ UNCHANGED rtVars
    /\ UNCHANGED fsVars
    /\ UNCHANGED scVars
    /\ UNCHANGED ftVars
    /\ UNCHANGED ldVars

BjInit ==
    /\ bjI = 1
    /\ bjMain = "call"
    /\ bjTask = [ t \in BjTasks |-> "none" ]
    /\ bjReqs = [ t \in BjTasks |-> 0 ]
    /\ bjWritten = {}
    /\ bjErrors = {}
    /\ EVIdle
    /\ TgIdle
    /\ TrIdle
    /\ RtIdle
    /\ FsIdle
    /\ ScIdle
    /\ FtIdle
    /\ LdIdle

BjNext ==
    \/ BjCacheSet
    \/ BjTaskRequests
    \/ BjTaskAnswered
    \/ BjTaskFails
    \/ BjJoin
    \/ BjJoinRejects

SpecBatch == BjInit /\ [][BjNext]_vars

(***************************************************************************)
(* SpecToggle: the controls of the newest app's page.  init() applies the  *)
(* state of the address; then the user selects sets and clicks the         *)
(* booster, list and foils toggles.  A release date 'YYYY-MM-DD' is the    *)
(* number YYYYMMDD, which orders as the strings do.                        *)
(***************************************************************************)
MaxTgClicks == 3

COLLECTOR_BOOSTER_START == 20191004
PLAY_BOOSTER_START == 20240209
FOIL_START == 19990215

\* imported from the shared module, whose text is not in the repository:
\* the catalog of the model holds no draft-only set
DRAFT_ONLY_SETS == {}

\* setsData: the catalog fetchSets returned, newest first
setsData ==
    << [ code |-> "blb", released |-> 20240802 ],
       [ code |-> "mkm", released |-> 20240209 ],
       [ code |-> "znr", released |-> 20200925 ],
       [ code |-> "jmp", released |-> 20200717 ],
       [ code |-> "m20", released |-> 20190712 ],
       [ code |-> "lea", released |-> 19930805 ] >>

SetCodes == { setsData[i].code : i \in 1..Len(setsData) }

\* what the address can hold: set is "" when the parameter is missing or
\* names no set of the catalog; the other fields have their defaults applied
TgUrls ==
    [ set : SetCodes \cup {""}, booster : BoosterTypes, foils : {"include", "exclude"},
      list : {"include", "exclude"} ]

getBoosterEra(releaseDate) ==
    IF releaseDate >= PLAY_BOOSTER_START THEN "play"
    ELSE IF releaseDate >= COLLECTOR_BOOSTER_START THEN "set"
    ELSE "draft"

\* setToggleValue on the booster toggle, whose buttons are play and
\* collector: the button with the value becomes the active one, if there is
\* one, and the hidden input takes the value
setToggleValue(buttons, value) ==
    [ active |-> IF value \in buttons THEN value ELSE "none", hidden |-> value ]

\* updateBoosterTypeOptions; b is [hidden, active, single] before the call,
\* preserveValue is "" for null
updateBoosterTypeOptions(b, releaseDate, setCode, preserveValue) ==
    IF setCode \in JUMPSTART_SETS \/ setCode \in DRAFT_ONLY_SETS
    THEN [ hidden |-> "play", active |-> "play", single |-> TRUE ]
    ELSE LET era == getBoosterEra(releaseDate)
         IN  IF era = "draft"
             THEN [ hidden |-> "play", active |-> "play", single |-> TRUE ]
             ELSE IF preserveValue # ""
                  THEN LET t == setToggleValue(BoosterTypes, preserveValue)
                       IN  [ hidden |-> t.hidden, active |-> t.active, single |-> FALSE ]
                  ELSE [ hidden |-> b.hidden, active |-> "play", single |-> FALSE ]

\* updateFilterToggles; f is [list, foils, listShown, foilsShown] before the call
updateFilterToggles(f, setCode, releaseDate) ==
    LET hasSpecialGuests == setCode \in SETS_WITH_SPECIAL_GUESTS
        hasFoils         == releaseDate >= FOIL_START
    IN  [ list       |-> IF hasSpecialGuests THEN f.list ELSE "exclude",
          listShown  |-> hasSpecialGuests,
          foils      |-> IF hasFoils THEN f.foils ELSE "include",
          foilsShown |-> hasFoils ]

TgBoosterNow == [ hidden |-> tgBooster, active |-> tgActive, single |-> tgSingle ]
TgFiltersNow == [ list |-> tgList, foils |-> tgFoils, listShown |-> tgListShown,
                  foilsShown |-> tgFoilsShown ]

\* before init(): the hidden inputs hold the defaults of the page
TgInit ==
    /\ tgUrl \in TgUrls
    /\ tgSet = ""
    /\ tgBooster = "play" /\ tgActive = "play" /\ tgSingle = FALSE
    /\ tgList = "exclude" /\ tgFoils = "include"
    /\ tgListShown = TRUE /\ tgFoilsShown = TRUE
    /\ tgPc = "boot"
    /\ tgClicks = 0
    /\ EVIdle
    /\ TrIdle
    /\ BjIdle
    /\ FsIdle
    /\ RtIdle
    /\ ScIdle
    /\ FtIdle
    /\ LdIdle

\* init(): the initial set, updateBoosterTypeOptions with the booster of the
\* address, updateFilterToggles, then setToggleValue for foils and list
TgInitPage ==
    /\ tgPc = "boot"
    /\ LET initialSet == IF tgUrl.set = "" THEN setsData[1]
                         ELSE CHOOSE st \in SeqRange(setsData) : st.code = tgUrl.set
           b == updateBoosterTypeOptions(TgBoosterNow, initialSet.released,
                                         initialSet.code, tgUrl.booster)
           f == updateFilterToggles(TgFiltersNow, initialSet.code, initialSet.released)
       IN  /\ tgSet' = initialSet.code
           /\ tgBooster' = b.hidden /\ tgActive' = b.active /\ tgSingle' = b.single
           /\ tgListShown' = f.listShown /\ tgFoilsShown' = f.foilsShown
           /\ tgFoils' = tgUrl.foils
           /\ tgList' = tgUrl.list
    /\ tgPc' = "ready"
    /\ UNCHANGED <<tgUrl, tgClicks>>
    /\ UNCHANGED evVars
    /\ UNCHANGED trVars
    /\ UNCHANGED bjVars
    /\ UNCHANGED fsVars
    /\ UNCHANGED rtVars
    /\ UNCHANGED scVars
    /\ UNCHANGED ftVars
    /\ UNCHANGED ldVars

\* handleSetSelect(set), called by the autocomplete after it wrote set-select
handleSetSelect ==
    \E i \in 1..Len(setsData) :
        /\ tgPc = "ready"
        /\ tgClicks < MaxTgClicks
        /\ LET set == setsData[i]
               b == updateBoosterTypeOptions(TgBoosterNow, set.released, set.code, "")
               f == updateFilterToggles(TgFiltersNow, set.code, set.released)
           IN  /\ tgSet' = set.code
               /\ tgBooster' = b.hidden /\ tgActive' = b.active /\ tgSingle' = b.single
               /\ tgList' = f.list /\ tgFoils' = f.foils
               /\ tgListShown' = f.listShown /\ tgFoilsShown' = f.foilsShown
        /\ tgClicks' = tgClicks + 1
        /\ UNCHANGED <<tgUrl, tgPc>>
        /\ UNCHANGED evVars
        /\ UNCHANGED trVars
        /\ UNCHANGED bjVars
        /\ UNCHANGED fsVars
        /\ UNCHANGED rtVars
        /\ UNCHANGED scVars
        /\ UNCHANGED ftVars
        /\ UNCHANGED ldVars

\* the click handler of booster-toggle (disableWhenSingle): a click on the
\* button with the value; the single toggle has the play button only
TgClickBooster ==
    \E value \in BoosterTypes :
        /\ tgPc = "ready"
        /\ tgClicks < MaxTgClicks
        /\ ~tgSingle
        /\ tgActive' = value
        /\ tgBooster' = value
        /\ tgClicks' = tgClicks + 1
        /\ UNCHANGED <<tgUrl, tgSet, tgSingle, tgList, tgFoils, tgListShown,
                       tgFoilsShown, tgPc>>
        /\ UNCHANGED evVars
        /\ UNCHANGED trVars
        /\ UNCHANGED bjVars
        /\ UNCHANGED fsVars
        /\ UNCHANGED rtVars
        /\ UNCHANGED scVars
        /\ UNCHANGED ftVars
        /\ UNCHANGED ldVars

\* the click handler of list-toggle; a hidden group takes no click
TgClickList ==
    \E value \in {"include", "exclude"} :
        /\ tgPc = "ready"
        /\ tgClicks < MaxTgClicks
        /\ tgListShown
        /\ tgList' = value
        /\ tgClicks' = tgClicks + 1
        /\ UNCHANGED <<tgUrl, tgSet, tgBooster, tgActive, tgSingle, tgFoils,
                       tgListShown, tgFoilsShown, tgPc>>
        /\ UNCHANGED evVars
        /\ UNCHANGED trVars
        /\ UNCHANGED bjVars
        /\ UNCHANGED fsVars
        /\ UNCHANGED rtVars
        /\ UNCHANGED scVars
        /\ UNCHANGED ftVars
        /\ UNCHANGED ldVars

\* the click handler of foils-toggle; a hidden group takes no click
TgClickFoils ==
    \E value \in {"include", "exclude"} :
        /\ tgPc = "ready"
        /\ tgClicks < MaxTgClicks
        /\ tgFoilsShown
        /\ tgFoils' = value
        /\ tgClicks' = tgClicks + 1
        /\ UNCHANGED <<tgUrl, tgSet, tgBooster, tgActive, tgSingle, tgList,
                       tgListShown, tgFoilsShown, tgPc>>
        /\ UNCHANGED evVars
        /\ UNCHANGED trVars
        /\ UNCHANGED bjVars
        /\ UNCHANGED fsVars
        /\ UNCHANGED rtVars
        /\ UNCHANGED scVars
        /\ UNCHANGED ftVars
        /\ UNCHANGED ldVars

TgNext == TgInitPage \/ handleSetSelect \/ TgClickBooster \/ TgClickList \/ TgClickFoils

SpecToggle == TgInit /\ [][TgNext]_vars

(***************************************************************************)
(* SpecTreat: expandCardFinishes applied to one card record, drawn over    *)
(* the tags getCardTreatment reads, the set code and the finishes          *)
(***************************************************************************)
TrCards ==
    { [ BaseCard EXCEPT !.id = 1, !.frame_effects = fe, !.border_color = bc,
                        !.promo = pr, !.full_art = fa, !.set = st, !.finishes = fin,
                        !.usd = 300, !.usd_foil = 400, !.usd_etched = 500 ] :
        fe \in SUBSET {"showcase", "extendedart", "etched"},
        bc \in {"black", "borderless"}, pr \in BOOLEAN, fa \in BOOLEAN,
        st \in {"main", "plst", "spg"},
        fin \in { {"nonfoil", "foil"}, {"nonfoil", "etched"}, {"foil", "etched"},
                  {"nonfoil", "foil", "etched"} } }

TrInit ==
    /\ trCard \in TrCards
    /\ trEntries = <<>>
    /\ trPc = "input"
    /\ EVIdle
    /\ TgIdle
    /\ BjIdle
    /\ FsIdle
    /\ RtIdle
    /\ ScIdle
    /\ FtIdle
    /\ LdIdle

TrExpand ==
    /\ trPc = "input"
    /\ trEntries' = expandCardFinishes(<<trCard>>)
    /\ trPc' = "done"
    /\ UNCHANGED trCard
    /\ UNCHANGED evVars
    /\ UNCHANGED tgVars
    /\ UNCHANGED bjVars
    /\ UNCHANGED fsVars
    /\ UNCHANGED rtVars
    /\ UNCHANGED scVars
    /\ UNCHANGED ftVars
    /\ UNCHANGED ldVars

TrNext == TrExpand

SpecTreat == TrInit /\ [][TrNext]_vars

(***************************************************************************)
(* SpecEV: calculatePackEV applied to a pool drawn from EVPools            *)
(***************************************************************************)
EVInit ==
    /\ pool \in EVPools
    /\ ev = Null
    /\ evPc = "input"
    /\ ScIdle
    /\ FtIdle
    /\ LdIdle
    /\ TgIdle
    /\ TrIdle
    /\ BjIdle
    /\ FsIdle
    /\ RtIdle

CalcEV ==
    /\ evPc = "input"
    /\ ev' = calculatePackEV(pool)
    /\ evPc' = "done"
    /\ UNCHANGED pool
    /\ UNCHANGED scVars
    /\ UNCHANGED ftVars
    /\ UNCHANGED ldVars
    /\ UNCHANGED tgVars
    /\ UNCHANGED trVars
    /\ UNCHANGED bjVars
    /\ UNCHANGED fsVars
    /\ UNCHANGED rtVars

EVNext == CalcEV

SpecEV == EVInit /\ [][EVNext]_vars

(***************************************************************************)
(* The valuation model as the specification states it, over the set of     *)
(* (position, finish) pairs of a pool rather than over the expanded list.  *)
(***************************************************************************)
FinishKinds == {"nonfoil", "foil", "etched"}

PriceOf(card, f) ==
    CASE f = "nonfoil" -> card.usd
      [] f = "foil"    -> card.usd_foil
      [] f = "etched"  -> card.usd_etched

\* the priced finishes of a pool: <<position, finish>>
PricedFinishes(cards) ==
    { pf \in (1..Len(cards)) \X FinishKinds :
        /\ pf[2] \in cards[pf[1]].finishes
        /\ PriceOf(cards[pf[1]], pf[2]) # Null
        /\ PriceOf(cards[pf[1]], pf[2]) > 0 }

\* the pairs of one bucket; kinds are the finishes the bucket takes
SlotPairs(cards, rarity, kinds) ==
    { pf \in PricedFinishes(cards) : cards[pf[1]].rarity = rarity /\ pf[2] \in kinds }

SlotValue(cards, rarity, kinds, rate) ==
    LET pairs == SlotPairs(cards, rarity, kinds)
        ids   == { cards[pf[1]].id : pf \in pairs }
        n     == IF ids = {} THEN 1 ELSE Cardinality(ids)
    IN  SetSum(pairs, [ pf \in pairs |->
                          (PriceOf(cards[pf[1]], pf[2]) * rate * EVScale) \div n ])

\* the four-bucket expected value; nonFoilKinds are the finishes taken as non-foil
ModelEV(cards, nonFoilKinds) ==
      SlotValue(cards, "rare", nonFoilKinds, 875)
    + SlotValue(cards, "mythic", nonFoilKinds, 125)
    + SlotValue(cards, "rare", {"foil"}, 100)
    + SlotValue(cards, "mythic", {"foil"}, 20)

\* dollars and cents as a scaled expected value
EVAmount(cents) == cents * 1000 * EVScale

\* C2: calculatePackEV leaves etched entries out of all four buckets: the value
\* it returns is the four-bucket value of the nonfoil and foil entries alone
\* (an etched entry adds to no bucket's price sum and to no bucket's N).
C2_EtchedExcluded ==
    evPc = "done" => ev = ModelEV(pool, {"nonfoil"})

\* C3: calculatePackEV returns the sum over the non-foil rares of
\* price * 0.875 / N_rare, the non-foil mythics of price * 0.125 / N_mythic, the
\* foil rares of price * 0.10 / N_foilRare and the foil mythics of
\* price * 0.02 / N_foilMythic, N the number of distinct ids of the bucket (1
\* for an empty bucket); one rare at $30 and one mythic at $20 with no priced
\* foil give 28.75, and a pool with no rare or mythic entry gives 0.  Non-foil
\* is what the code calls !isFoil: the nonfoil and the etched finish.
C3_OneRareOneMythic ==
    /\ Cardinality(SlotPairs(pool, "rare", {"nonfoil", "etched"})) = 1
    /\ Cardinality(SlotPairs(pool, "mythic", {"nonfoil", "etched"})) = 1
    /\ \A pf \in SlotPairs(pool, "rare", {"nonfoil", "etched"}) :
          PriceOf(pool[pf[1]], pf[2]) = 3000
    /\ \A pf \in SlotPairs(pool, "mythic", {"nonfoil", "etched"}) :
          PriceOf(pool[pf[1]], pf[2]) = 2000
    /\ SlotPairs(pool, "rare", {"foil"}) = {}
    /\ SlotPairs(pool, "mythic", {"foil"}) = {}

C3_EVFormula ==
    evPc = "done" =>
        /\ ev = ModelEV(pool, {"nonfoil", "etched"})
        /\ C3_OneRareOneMythic => ev = EVAmount(2875)
        /\ (\A pf \in PricedFinishes(pool) :
               pool[pf[1]].rarity \notin {"rare", "mythic"}) => ev = 0

\* C3 witness: the pool of the 28.75 scenario has been valued
C3_Witness ==
    /\ evPc = "done"
    /\ C3_OneRareOneMythic
    /\ ev = EVAmount(2875)

(***************************************************************************)
(* Claims about the cache script's eligibility rules (SpecScript)          *)
(***************************************************************************)
\* the numbers a list of range strings covers
Covered(ranges) ==
    UNION { IF Len(r) = 2 THEN r[1]..r[2] ELSE { r[1] } : r \in SeqRange(ranges) }

GuaranteedPlay(config) == IF config.hasInclude THEN Covered(config.include) ELSE {}
GuaranteedExclusive(config) == IF config.hasExclusive THEN Covered(config.exclusive) ELSE {}

\* C4: with collectorExclusive.collectorNumbers = ["100-120"] in the set's
\* config (and 110 not listed as guaranteed play, which rule order puts first),
\* no printing with collector number 110 is in the play result, whatever its
\* promo types and frame effects.  Stated for the sets that have a play and a
\* collector product (a Jumpstart set has one product).
C4_ExclusiveRangeExcluded ==
    ( /\ scPc = "done"
      /\ scBooster = "play"
      /\ scSet \notin JUMPSTART_SETS
      /\ scConfig.hasExclusive
      /\ scConfig.exclusive = << <<100, 120>> >>
      /\ 110 \notin GuaranteedPlay(scConfig) )
    => \A c \in SeqRange(scResult) : c.collector_number # 110

\* C5: a printing whose collector number is listed under
\* playBooster.includeCollectorNumbers is in the play result even if its tags
\* are in the generic collector-exclusive lists, its booster flag is false or
\* its number is also in a collectorExclusive range.
C5_GuaranteedPlayIncluded ==
    ( scPc = "done" /\ scBooster = "play" )
    => \A c \in SeqRange(scDb) :
          c.collector_number \in GuaranteedPlay(scConfig) => c \in SeqRange(scResult)

\* C5 witness: a printing kept by the guaranteed-play rule alone: it has an
\* extended-art frame, a false booster flag and a number that is also in the
\* collector-exclusive range
C5_Witness ==
    /\ scPc = "done"
    /\ scBooster = "play"
    /\ \E c \in SeqRange(scResult) :
          /\ c.collector_number \in GuaranteedPlay(scConfig)
          /\ c.collector_number \in GuaranteedExclusive(scConfig)
          /\ "extendedart" \in c.frame_effects
          /\ ~c.booster

(***************************************************************************)
(* Claims about the app's fetchSetCards (SpecFetch)                        *)
(***************************************************************************)
\* a card of the requested set itself that no supplementary-pool fetch tagged
OwnPrinting(c) ==
    c.set = ftSetCode /\ ~c.fromBonusSheet /\ ~c.fromRetroSheet

\* C6: when fetchSetCards returns for the play booster, every card that one of
\* the supplementary-pool fetches (Special Guests, The Big Score, bonus sheet,
\* retro sheet) returned is in the result, whatever its tags and booster flag.
C6_SupplementaryIncluded ==
    (ftPc = "done" /\ ftBoosterType = "play") => ftSupp \subseteq SeqIds(ftCards)

\* a live-fetched supplementary card with the extended-art frame and booster
\* false is in the play result
C6_Witness ==
    /\ ftPc = "done" /\ ftBoosterType = "play"
    /\ \E i \in 1..Len(ftCards) :
        /\ ftCards[i].id \in ftSupp
        /\ ~ftCards[i].fromCache
        /\ ~ftCards[i].booster
        /\ isCollectorExclusive(ftCards[i])

\* C7: when fetchSetCards returns for the play booster and the set has no
\* config, the result holds no printing of the set itself whose promo types or
\* frame effects are in the generic collector-exclusive lists.
C7_TaggedExcluded ==
    (ftPc = "done" /\ ftBoosterType = "play" /\ ftConfig = NoConfig)
        => \A i \in 1..Len(ftCards) :
                OwnPrinting(ftCards[i]) => ~isCollectorExclusive(ftCards[i])

\* the display groups of the fetched cards with no display filter narrowing them
FtGroups == filterAndSortCards(ftCards, 0, FALSE, FALSE)

\* C8 (for the printings of the set itself, in a set with no config): when the
\* play booster is selected, no display group made from the fetched cards has
\* the Extended Art label in its treatment.
C8_NoExtendedArtInPlay ==
    (ftPc = "done" /\ ftBoosterType = "play" /\ ftConfig = NoConfig)
        => \A i \in 1..Len(FtGroups) :
                OwnPrinting(FtGroups[i].card)
                    => "Extended Art" \notin SeqRange(FtGroups[i].treatment)

\* what fetchSetCards returns when no data file is there and every live
\* request is answered
FtLiveResult ==
    LET primary == LivePrimary(ftDb, ftSetCode, ftBoosterType)
        sg      == IF ftIncludeSG /\ ftSetCode \in SETS_WITH_SPECIAL_GUESTS
                   THEN fetchLiveSpecialGuestsCards(ftDb, ftSetCode, TRUE, TRUE)
                   ELSE <<>>
        bonus   == IF ftSetCode \in DOMAIN BONUS_SHEET_SETS
                   THEN fetchBonusSheetCards(ftDb, BONUS_SHEET_SETS[ftSetCode])
                   ELSE <<>>
        retro   == IF ftSetCode \in SETS_WITH_RETRO_IN_BOOSTERS
                   THEN fetchRetroFrameCards(ftDb, ftSetCode)
                   ELSE <<>>
    IN  Finish(primary \o sg \o bonus \o retro).cards

\* C9: for the same set, booster type, Special Guests flag and upstream
\* printings, a fetchSetCards call in which nothing failed returns the same
\* set of card ids whether the static cache file or the live query served it.
C9_PathsAgree ==
    (ftPc = "done" /\ ftOk) => SeqIds(ftCards) = SeqIds(FtLiveResult)


(***************************************************************************)
(* Claims about app.js's loadCards (SpecLoad)                              *)
(***************************************************************************)
\* C1: for one set, booster type and Special Guests mode and the same
\* upstream data, every pack EV the page displays is the same number,
\* whatever the minimum price and the foil and rare modes were.
C1_EVIndependentOfFilters ==
    \A a \in shown, b \in shown :
        (a[1] = b[1] /\ a[2] = b[2] /\ a[3] = b[3]) => a[4] = b[4]

\* C10: no two loadCards calls with the same cache key wait for
\* fetchSetCards at the same time.
C10_SingleFlight ==
    \A i \in 1..Len(calls), j \in 1..Len(calls) :
        i # j => CacheKey(calls[i]) # CacheKey(calls[j])

\* what the page shows once loadCards has rendered rawCards for the values q
RenderedFor(rawCards, q) == FilterAndRender(view, rawCards, q)

\* C11: once no loadCards call is waiting and the cards of the current input
\* values (the most recently issued request) have been fetched without an
\* error being displayed, the grid and the pack EV on the page are those of
\* that request, whatever order the fetches resolved in.
C11_LatestRequestWins ==
    (calls = <<>> /\ view.errorHidden /\ CacheKey(dom) \in DOMAIN cardCache)
        => /\ view.grid = RenderedFor(cardCache[CacheKey(dom)], dom).grid
           /\ view.evHidden = RenderedFor(cardCache[CacheKey(dom)], dom).evHidden
           /\ ~view.evHidden
                => view.ev = RenderedFor(cardCache[CacheKey(dom)], dom).ev

(***************************************************************************)
(* Claims about fetchWithRetry and its callers (SpecRetry)                 *)
(***************************************************************************)
RtEnded == rtPc \in {"returned", "threw", "undefined"}

\* C12: when every answer of a fetchWithRetry call was a failure (a 429,
\* another non-OK status or a network rejection), the call ends by throwing,
\* never by returning.
C12_ExhaustedThrows ==
    (RtEnded /\ \A k \in 1..Len(rtSeen) : rtSeen[k] # "ok") => rtPc = "threw"

\* the safety part of C13: never more than 3 requests; an OK answer is the
\* last one asked for and the call has returned its parsed body
RtRequestsBounded ==
    /\ rtReqs <= 3
    /\ rtReqs = Len(rtSeen)
    /\ \A k \in 1..Len(rtSeen) :
           rtSeen[k] = "ok" => k = Len(rtSeen) /\ rtPc = "returned" /\ rtOut = "body"
    /\ rtPc = "returned" => Len(rtSeen) > 0 /\ rtSeen[Len(rtSeen)] = "ok"

C14_NotFoundIsEmpty ==
    rtResult # "pending" =>
        /\ (rtSeen[1] = "404" /\ \A k \in 1..Len(rtSeen) : rtSeen[k] # "ok")
               => rtResult = "empty" /\ rtView # "error"
        /\ (\A k \in 1..Len(rtSeen) : rtSeen[k] = "500") => rtResult = "error"

\* C15: a key of cardCache stays in it with the list it was memoized with,
\* and a loadCards whose key is memoized starts no fetchSetCards call (no
\* data-file or network request).
C15_MemoKept ==
    [][ /\ \A k \in DOMAIN cardCache :
               k \in DOMAIN cardCache' /\ cardCache'[k] = cardCache[k]
        /\ (clicks' = clicks + 1 /\ CacheKey(dom') \in DOMAIN cardCache)
               => calls' = calls ]_vars

(***************************************************************************)
(* Claims about the error state of the app's loadCards (SpecFetch)         *)
(***************************************************************************)
\* C16: loadCards shows the error state only when the data file gave no
\* cards and the live set query failed with something other than a 404, so
\* that nothing was retrieved; a missing file, an empty file list or a failed
\* supplementary-pool fetch alone leaves the call on its way to rendering;
\* and a load that failed memoizes nothing.
C16_ErrorOnlyWithoutData ==
    /\ ftView = "error" =>
           /\ ftPc = "failed" /\ ftPath = "none" /\ ftCards = <<>>
           /\ ftMemo = <<>>
    /\ ftPc = "failed" => ftPath = "none" /\ ftCards = <<>>
    /\ ftPath # "none" => ftPc # "failed" /\ ftView # "error"
    /\ ftView = "cards" => ftPc = "done" /\ ftMemo[FtCacheKey] = ftCards

\* a supplementary-pool fetch failed after the data file gave no cards and
\* the live set query answered 404, and the empty result is rendered
C16_Witness ==
    /\ ftView = "cards" /\ ~ftOk /\ ftPath = "live" /\ ftCards = <<>>
    /\ Len(fetchCachedCards(ftDb, ftConfig, ftSetCode, ftBoosterType)) = 0

(***************************************************************************)
(* Claims about expandCardFinishes and filterAndSortCards                  *)
(***************************************************************************)
\* a card that declares some finish whose price is a number above 0
HasPricedFinish(card) ==
    \E f \in FinishKinds :
        f \in card.finishes /\ PriceOf(card, f) # Null /\ PriceOf(card, f) > 0

Sellable(cards) == SeqFilter(cards, { c \in SeqRange(cards) : HasPricedFinish(c) })

\* C17: every entry expandCardFinishes emits has a price above 0; a card
\* gets an entry for a finish exactly when it declares the finish and the
\* price of the finish is a number above 0; a card with no such finish is in
\* no display group and leaves the pack EV as it is without the card.
C17_OnlyPricedFinishes ==
    /\ \A k \in 1..Len(expandCardFinishes(pool)) : expandCardFinishes(pool)[k].price > 0
    /\ \A c \in SeqRange(pool), f \in FinishKinds :
           Cardinality({ k \in 1..Len(expandCardFinishes(pool)) :
                           /\ expandCardFinishes(pool)[k].card = c
                           /\ expandCardFinishes(pool)[k].finishKey = f })
             = IF f \in c.finishes /\ PriceOf(c, f) # Null /\ PriceOf(c, f) > 0
               THEN Cardinality({ i \in 1..Len(pool) : pool[i] = c })
               ELSE 0
    /\ \A g \in SeqRange(filterAndSortCards(pool, 0, FALSE, FALSE)) :
           g.id \in { c.id : c \in SeqRange(Sellable(pool)) }
    /\ evPc = "done" => ev = calculatePackEV(Sellable(pool))

C17_Witness ==
    /\ evPc = "done" /\ Len(pool) = 2 /\ ev > 0
    /\ ~HasPricedFinish(pool[1]) /\ pool[1].usd = 3000 /\ pool[1].usd_foil = 0
    /\ HasPricedFinish(pool[2])

\* C18: every display group filterAndSortCards returns lists at least one
\* finish, lists its finishes by price from high to low, and has the price
\* of the first listed finish as its maxPrice.
C18_GroupFinishesSorted ==
    \A i \in 1..Len(fsGroups) :
        /\ Len(fsGroups[i].finishPrices) > 0
        /\ \A k \in 1..(Len(fsGroups[i].finishPrices) - 1) :
               fsGroups[i].finishPrices[k].price >= fsGroups[i].finishPrices[k + 1].price
        /\ fsGroups[i].maxPrice = fsGroups[i].finishPrices[1].price

\* a group whose finishes came out of expandCardFinishes low price first
C18_Witness ==
    /\ fsPc = "once" /\ Len(fsGroups) = 2
    /\ Len(fsGroups[1].finishPrices) = 2
    /\ fsGroups[1].finishPrices[1].type = "foil"
    /\ fsGroups[1].finishPrices[1].price > fsGroups[1].finishPrices[2].price

\* the fields of a display group the page shows
GroupShown(g) ==
    [ id |-> g.id, finishPrices |-> g.finishPrices, maxPrice |-> g.maxPrice,
      treatment |-> g.treatment, isFoil |-> g.isFoil ]

\* C19: filterAndSortCards applied to its own output with the same minPrice,
\* excludeRares and excludeFoils gives the same groups in the same order, with
\* the same finishPrices, maxPrice, treatment and isFoil.
C19_Idempotent ==
    fsPc = "twice" =>
        /\ Len(fsAgain) = Len(fsGroups)
        /\ \A i \in 1..Len(fsGroups) : GroupShown(fsAgain[i]) = GroupShown(fsGroups[i])

(***************************************************************************)
(* Claims about the pack EV as a function of the pool (SpecEV)             *)
(***************************************************************************)
\* how many distinct cards a bucket of the pool holds
BucketSize(cards, rarity, kinds) ==
    Cardinality({ cards[pf[1]].id : pf \in SlotPairs(cards, rarity, kinds) })

SameBucketSizes(a, b) ==
    \A rarity \in {"rare", "mythic"}, kinds \in {{"nonfoil", "etched"}, {"foil"}} :
        BucketSize(a, rarity, kinds) = BucketSize(b, rarity, kinds)

EVPrices == {300, 2000, 3000}

\* the pool with the card at position i replaced by the same card under the
\* id given and with the nonfoil price p
Replaced(cards, i, id, p) ==
    [ cards EXCEPT ![i] = [ cards[i] EXCEPT !.id = id, !.usd = p ] ]

\* C20: replacing a rare that has a priced nonfoil finish by a rare with a
\* strictly higher nonfoil price, the number of distinct cards of every
\* bucket and everything else staying as it was, strictly increases the
\* value calculatePackEV returns.
C20_EVMonotone ==
    evPc = "done" =>
        \A i \in 1..Len(pool), id \in 1..MaxPool, p \in EVPrices :
            ( /\ pool[i].rarity = "rare"
              /\ "nonfoil" \in pool[i].finishes
              /\ pool[i].usd # Null /\ pool[i].usd > 0
              /\ p > pool[i].usd
              /\ SameBucketSizes(pool, Replaced(pool, i, id, p)) )
                => calculatePackEV(Replaced(pool, i, id, p)) > ev

\* two rares in the bucket, the second one with a price that can be raised
C20_Witness ==
    /\ evPc = "done" /\ Len(pool) = 2
    /\ pool[1].rarity = "rare" /\ pool[2].rarity = "rare" /\ pool[1].id # pool[2].id
    /\ pool[1].finishes = {"nonfoil"} /\ pool[1].usd = 3000
    /\ pool[2].finishes = {"nonfoil", "foil"} /\ pool[2].usd = 300

(***************************************************************************)
(* Claims about the display filter and the grouping (SpecFilter)           *)
(***************************************************************************)
\* the type a finish is listed under in a display group
ShownType(f) ==
    CASE f = "nonfoil" -> "regular"
      [] f = "foil"    -> "foil"
      [] f = "etched"  -> "etched"

\* the priced finishes <<position, finish>> of a list of cards that the
\* display filter is stated to keep
KeptPairs(cards, minPrice, excludeRares, excludeFoils) ==
    { pf \in PricedFinishes(cards) :
        /\ PriceOf(cards[pf[1]], pf[2]) >= minPrice
        /\ excludeRares => cards[pf[1]].rarity \notin {"rare", "mythic"}
        /\ excludeFoils => pf[2] # "foil" }

FsKept == KeptPairs(fsCards, fsMin, fsRares, fsFoils)

\* the finishes listed in the groups: <<group, place in its finishPrices>>
FsListed == { gk \in (1..Len(fsGroups)) \X (1..3 * MaxFsPool) :
                gk[2] <= Len(fsGroups[gk[1]].finishPrices) }

\* C21: an expanded entry is listed in the display groups exactly when its
\* price is at least minPrice, it is not a rare or mythic under excludeRares
\* and not a foil under excludeFoils; so no listed price is below minPrice
\* and a card none of whose finishes passes has no group.
C21_FilterKeepsExactly ==
    fsPc # "input" =>
        /\ \A c \in SeqRange(fsCards), f \in FinishKinds :
               Cardinality({ gk \in FsListed :
                               /\ fsGroups[gk[1]].id = c.id
                               /\ fsGroups[gk[1]].finishPrices[gk[2]] =
                                      [ type |-> ShownType(f), price |-> PriceOf(c, f) ] })
                 = Cardinality({ pf \in FsKept :
                                   /\ fsCards[pf[1]].id = c.id
                                   /\ pf[2] = f
                                   /\ PriceOf(fsCards[pf[1]], f) = PriceOf(c, f) })
        /\ \A gk \in FsListed : fsGroups[gk[1]].finishPrices[gk[2]].price >= fsMin
        /\ { fsGroups[i].id : i \in 1..Len(fsGroups) } = { fsCards[pf[1]].id : pf \in FsKept }

\* a finish priced exactly at the minimum is listed, the other card has no group
C21_Witness ==
    /\ fsPc = "once" /\ fsMin = 300 /\ Len(fsCards) = 2 /\ Len(fsGroups) = 1
    /\ fsCards[1].id # fsCards[2].id
    /\ fsGroups[1].maxPrice = 300
    /\ HasPricedFinish(fsCards[1]) /\ HasPricedFinish(fsCards[2])

\* C22: with excludeFoils on no display group lists a finish of type
\* "foil", and every etched finish that meets the price and rarity filters
\* is listed, as type "etched", in the group of its card.
C22_EtchedNotFoil ==
    (fsPc # "input" /\ fsFoils) =>
        /\ \A gk \in FsListed : fsGroups[gk[1]].finishPrices[gk[2]].type # "foil"
        /\ \A pf \in PricedFinishes(fsCards) :
               ( /\ pf[2] = "etched"
                 /\ PriceOf(fsCards[pf[1]], "etched") >= fsMin
                 /\ fsRares => fsCards[pf[1]].rarity \notin {"rare", "mythic"} )
                   => \E gk \in FsListed :
                          /\ fsGroups[gk[1]].id = fsCards[pf[1]].id
                          /\ fsGroups[gk[1]].finishPrices[gk[2]] =
                                 [ type |-> "etched",
                                   price |-> PriceOf(fsCards[pf[1]], "etched") ]

\* excludeFoils on: the foil of one card is gone, the etched finish of the
\* other is listed
C22_Witness ==
    /\ fsPc = "once" /\ fsFoils /\ Len(fsCards) = 2 /\ Len(fsGroups) = 2
    /\ \E i \in 1..2 : "foil" \in fsCards[i].finishes /\ fsCards[i].usd_foil = 3000
    /\ \E gk \in FsListed : fsGroups[gk[1]].finishPrices[gk[2]].type = "etched"

(***************************************************************************)
(* Claims about the sources of the app's fetchSetCards (SpecFetch)         *)
(***************************************************************************)
InSpecialGuestsRange(c, setCode) ==
    /\ setCode \in DOMAIN SPECIAL_GUESTS_RANGES
    /\ c.collector_number >= SPECIAL_GUESTS_RANGES[setCode][1]
    /\ c.collector_number <= SPECIAL_GUESTS_RANGES[setCode][2]

\* C23: a Special Guests record is in the result of fetchSetCards only when
\* includeSpecialGuests is on, the set has a Special Guests range and the
\* record's collector number is inside it; a record of The Big Score only
\* when the flag is on and the set is otj; and when the flag is on, the set
\* has a range and no file or request failed, every Special Guests printing
\* inside the range is in the result, on the cache path and on the live one.
C23_SpecialGuestsToggle ==
    ftPc = "done" =>
        /\ \A i \in 1..Len(ftCards) :
               /\ ftCards[i].set = "spg"
                      => ftIncludeSG /\ InSpecialGuestsRange(ftCards[i], ftSetCode)
               /\ ftCards[i].set = "big" => ftIncludeSG /\ ftSetCode = "otj"
        /\ (ftIncludeSG /\ ftOk /\ ftSetCode \in DOMAIN SPECIAL_GUESTS_RANGES)
               => \A k \in 1..Len(ftDb) :
                      (ftDb[k].set = "spg" /\ InSpecialGuestsRange(ftDb[k], ftSetCode))
                          => ftDb[k].id \in SeqIds(ftCards)

\* the cache path for otj with the flag on: the Special Guests printing inside
\* otj's range and the one of The Big Score are in, the one outside is not
C23_Witness ==
    /\ ftPc = "done" /\ ftPath = "cache" /\ ftSetCode = "otj" /\ ftIncludeSG
    /\ {101, 103} \subseteq SeqIds(ftCards)
    /\ 102 \notin SeqIds(ftCards)

\* C24: fetchSetCards reads the data file first; the live query for the set
\* is issued exactly when that read gave no cards (no file, a failed or
\* unparsable answer, an empty list), straight after it; once the data file
\* gave a non-empty list no live query for the set is issued.
C24_CacheBeforeLive ==
    /\ [](ftPath = "cache" =>
            /\ ftPc \notin {"cache", "live", "liveSG", "failed"}
            /\ Len(fetchCachedCards(ftDb, ftConfig, ftSetCode, ftBoosterType)) > 0)
    /\ [](ftPc \in {"live", "liveSG", "failed"} => ftPath # "cache")
    /\ [][ /\ ftPc' = "live" => ftPc = "cache" /\ ftPath = "none" /\ ftCards = <<>>
           /\ (ftPc = "cache" /\ ftPath' # "cache") => ftPc' = "live"
           /\ (ftPath # "live" /\ ftPath' = "live") => ftPc = "live" ]_vars

\* the data file holds cards but its request failed: the live query answered
C24_Witness ==
    /\ ftPc = "done" /\ ftPath = "live"
    /\ Len(fetchCachedCards(ftDb, ftConfig, ftSetCode, ftBoosterType)) > 0

(***************************************************************************)
(* Claims about the batch cache job (SpecBatch)                            *)
(***************************************************************************)
\* C25: the two fetch tasks of a set are joined before the job goes on: when
\* a request is started for a set, no fetch task of an earlier set is still
\* sleeping or fetching, also when one of that set's two tasks has failed.
C25_JoinedBeforeNextSet ==
    [][ \A t \in BjTasks :
            bjReqs'[t] > bjReqs[t]
                => \A u \in BjTasks : u[1] < t[1] => ~BjActive(u) ]_vars

(***************************************************************************)
(* Claims about the cache script's generic rules and documents (SpecScript)*)
(***************************************************************************)
\* the generic heuristic as stated: booster flag true, no tag in the global lists
GenericPlay(c) ==
    /\ c.booster
    /\ c.promo_types \cap COLLECTOR_EXCLUSIVE_PROMOS = {}
    /\ c.frame_effects \cap COLLECTOR_EXCLUSIVE_FRAMES = {}

\* C26: for the play product of a set that has a config (guaranteed-play
\* numbers, collector-exclusive numbers or both), a printing whose number is
\* in neither list is in the result exactly when its booster flag is true and
\* none of its promo types and frame effects is in the global lists.
C26_GenericFallback ==
    ( /\ scPc = "done"
      /\ scBooster = "play"
      /\ scConfig.hasInclude \/ scConfig.hasExclusive )
    => \A c \in SeqRange(scDb) :
          ( /\ c.collector_number \notin GuaranteedPlay(scConfig)
            /\ c.collector_number \notin GuaranteedExclusive(scConfig) )
              => (c \in SeqRange(scResult) <=> GenericPlay(c))

\* ids occur once in a list of records
DistinctIds(s) == \A i, j \in 1..Len(s) : s[i].id = s[j].id => i = j

\* C27: in a cache document of cacheSet every record of play is in collector,
\* no id occurs twice in play or in collector, and collector holds every
\* upstream printing of the set that the price query and processCard keep,
\* whatever its booster flag, its tags and the set's config.
C27_CollectorSuperset ==
    scPc = "cached"
    => /\ SeqRange(scDoc.play) \subseteq SeqRange(scDoc.collector)
       /\ DistinctIds(scDoc.play)
       /\ DistinctIds(scDoc.collector)
       /\ \A c \in SeqRange(scDb) :
             ( /\ c.set = scSet
               /\ c.usd >= MIN_QUERY_PRICE \/ c.usd_foil >= MIN_QUERY_PRICE
               /\ processCard(c) # <<>> )
                 => processCard(c)[1] \in SeqRange(scDoc.collector)

\* a document with a play record, and a collector record play does not have
\* that the play filter of a configured set dropped
C27_Witness ==
    /\ scPc = "cached"
    /\ scConfig.hasInclude
    /\ scDoc.play # <<>>
    /\ \E r \in SeqRange(scDoc.collector) :
          /\ r \notin SeqRange(scDoc.play)
          /\ ~r.booster

\* the kept pairs <<position, finish>> of the cards with one id
KeptOf(id) == { pf \in FsKept : fsCards[pf[1]].id = id }

\* C28: there is exactly one display group per card id among the entries
\* that survive the filter, the group of an id lists as many pairs as entries
\* of that id survive, and the pairs of all groups are as many as the
\* surviving entries.
C28_GroupingKeepsAll ==
    fsPc # "input" =>
        /\ \A i, j \in 1..Len(fsGroups) : fsGroups[i].id = fsGroups[j].id => i = j
        /\ \A pf \in FsKept : \E i \in 1..Len(fsGroups) : fsGroups[i].id = fsCards[pf[1]].id
        /\ \A i \in 1..Len(fsGroups) :
               /\ KeptOf(fsGroups[i].id) # {}
               /\ Len(fsGroups[i].finishPrices) = Cardinality(KeptOf(fsGroups[i].id))
        /\ Cardinality(FsListed) = Cardinality(FsKept)

\* two groups, one of them with two pairs, and a finish the filter dropped
C28_Witness ==
    /\ fsPc = "once"
    /\ Len(fsGroups) = 2
    /\ Cardinality(FsListed) = 3
    /\ Cardinality(PricedFinishes(fsCards)) = 4

\* the place of a finish in the order expandCardFinishes pushes entries
FinishRank(f) ==
    CASE f = "nonfoil" -> 1
      [] f = "foil"    -> 2
      [] f = "etched"  -> 3

\* pair a comes before pair b in the expanded list
EntryBefore(a, b) ==
    \/ a[1] < b[1]
    \/ a[1] = b[1] /\ FinishRank(a[2]) <= FinishRank(b[2])

\* the treatment an entry of card c in finish f carries
TreatmentOf(c, f) ==
    CASE f = "nonfoil" -> getCardTreatment(c, FALSE)
      [] f = "foil"    -> getCardTreatment(c, TRUE)
      [] f = "etched"  -> EtchedTreatment(getCardTreatment(c, FALSE))

\* the highest-priced surviving entry of an id, the first one when prices tie
TopOf(id) ==
    CHOOSE a \in KeptOf(id) :
        \A b \in KeptOf(id) :
            \/ PriceOf(fsCards[a[1]], a[2]) > PriceOf(fsCards[b[1]], b[2])
            \/ /\ PriceOf(fsCards[a[1]], a[2]) = PriceOf(fsCards[b[1]], b[2])
               /\ EntryBefore(a, b)

\* C29: the treatment and the isFoil flag of a display group are those of its
\* highest-priced contributing entry, the first of them in the order of the
\* expanded list (nonfoil, foil, etched within a card) when prices tie, and
\* the price of that entry is the group's maxPrice.
C29_RepresentativeIsTop ==
    fsPc # "input" =>
        \A i \in 1..Len(fsGroups) :
            LET top == TopOf(fsGroups[i].id)
            IN  /\ fsGroups[i].maxPrice = PriceOf(fsCards[top[1]], top[2])
                /\ fsGroups[i].treatment = TreatmentOf(fsCards[top[1]], top[2])
                /\ fsGroups[i].isFoil = (top[2] = "foil")

\* a group whose foil is its dearest finish, and a group whose nonfoil and
\* foil tie: the first is shown as foil, the second as nonfoil
C29_Witness ==
    /\ fsPc = "once"
    /\ \E i, j \in 1..Len(fsGroups) :
          /\ fsGroups[i].isFoil
          /\ Len(fsGroups[i].finishPrices) = 2
          /\ fsGroups[i].finishPrices[1].price > fsGroups[i].finishPrices[2].price
          /\ ~fsGroups[j].isFoil
          /\ Len(fsGroups[j].finishPrices) = 2
          /\ fsGroups[j].finishPrices[1].price = fsGroups[j].finishPrices[2].price
          /\ { fsGroups[j].finishPrices[k].type : k \in 1..2 } = {"regular", "foil"}

\* where in the input the first surviving entry of an id is
FirstKept(id) ==
    CHOOSE p \in { pf[1] : pf \in KeptOf(id) } :
        \A q \in { pf[1] : pf \in KeptOf(id) } : p <= q

TreatmentLabels ==
    << "Showcase", "Extended Art", "Borderless", "Promo", "Full Art", "Etched",
       "Foil", "The List", "Special Guest" >>

\* whether the tag of a label is present on card c in finish f
TagPresent(c, f, label) ==
    CASE label = "Showcase"      -> "showcase" \in c.frame_effects
      [] label = "Extended Art"  -> "extendedart" \in c.frame_effects
      [] label = "Borderless"    -> c.border_color = "borderless"
      [] label = "Promo"         -> c.promo
      [] label = "Full Art"      -> c.full_art
      [] label = "Etched"        -> "etched" \in c.frame_effects
      [] label = "Foil"          -> f = "foil"
      [] label = "The List"      -> c.set = "plst"
      [] label = "Special Guest" -> c.set = "spg"

\* the label as stated: the present ones in order, "Regular" for none, and
\* "Etched" in place of a bare "Regular" for the etched finish
StatedTreatment(c, f) ==
    LET present == SeqFilter(TreatmentLabels,
                             { l \in SeqRange(TreatmentLabels) : TagPresent(c, f, l) })
    IN  IF present # <<>> THEN present
        ELSE IF f = "etched" THEN <<"Etched">> ELSE <<"Regular">>

\* C31: the treatment of every expanded entry is the list, in the fixed
\* order, of exactly the labels whose tag is present (Foil for the foil
\* finish only), "Regular" when there is none, and for the etched finish
\* "Etched" in place of a bare "Regular", any other label unchanged.
C31_TreatmentLabel ==
    trPc = "done" =>
        /\ \A i \in 1..Len(trEntries) :
               trEntries[i].treatment = StatedTreatment(trCard, trEntries[i].finishKey)
        /\ { trEntries[i].finishKey : i \in 1..Len(trEntries) } = trCard.finishes

\* an etched entry that keeps its label, next to a foil entry with three labels
C31_Witness ==
    /\ trPc = "done"
    /\ \E i, j \in 1..Len(trEntries) :
          /\ trEntries[i].finishKey = "etched"
          /\ trEntries[i].treatment = <<"Showcase", "Special Guest">>
          /\ trEntries[j].finishKey = "foil"
          /\ trEntries[j].treatment = <<"Showcase", "Foil", "Special Guest">>

(***************************************************************************)
(* Claims about the loading indicator and the error message (SpecLoad)     *)
(***************************************************************************)
\* C32: whenever the loading indicator is hidden no loadCards call is
\* waiting for its fetchSetCards; every call hides the indicator when it
\* ends, by its finally block.
C32_IndicatorTellsLoading ==
    ~view.loading => calls = <<>>

\* C33: while the error message of a failed loadCards call is visible, the
\* card grid, the card count and the pack EV are hidden.
C33_ErrorHidesGrid ==
    ~view.errorHidden => (view.gridHidden /\ view.countHidden /\ view.evHidden)

(***************************************************************************)
(* Claim about the ids of the list fetchSetCards returns (SpecFetch)       *)
(***************************************************************************)
\* C34: the list fetchSetCards returns holds no card id twice, whichever
\* primary source and supplementary pools produced it.
C34_NoDuplicateIds ==
    ftPc = "done" => DistinctIds(ftCards)

(***************************************************************************)
(* Claims about the page's toggles (SpecToggle)                            *)
(***************************************************************************)
\* C35: once the page is set up, the value of the hidden input booster-type
\* that loadCards reads is the value of the active button of the booster
\* toggle, after any set selections and toggle clicks.
C35_BoosterToggleAgrees ==
    tgPc = "ready" => tgBooster = tgActive

\* C36: once the page is set up, list-mode is "exclude" whenever the selected
\* set has no Special Guests and foils-mode is "include" whenever the set
\* was released before foils, for every address and set selection.
C36_HiddenTogglesDefault ==
    tgPc = "ready" =>
        /\ tgSet \notin SETS_WITH_SPECIAL_GUESTS => tgList = "exclude"
        /\ (\E i \in 1..Len(setsData) :
               setsData[i].code = tgSet /\ setsData[i].released < FOIL_START)
             => tgFoils = "include"

(***************************************************************************)
(* Claim about a 404 answer to fetchWithRetry (SpecRetry)                  *)
(***************************************************************************)
\* C37: when the first answer to a fetchWithRetry call is HTTP 404, that
\* request is the only one the call issues, and the caller is given the
\* empty result.
C37_NotFoundNotRetried ==
    (rtSeen # <<>> /\ rtSeen[1] = "404") =>
        /\ rtReqs = 1
        /\ rtResult \in {"pending", "empty"}

====
